---- MODULE Spec2Model ----
(***************************************************************************)
(* The useSMS hook (sendSMS, sendBulkSMS, testSMS, logSMSCampaign) and the *)
(* send-sms-demo1 edge function it invokes, as a state machine over the    *)
(* hook's React state, the position of the running invocation and the      *)
(* users / campaign_recipients / bulk_messages tables.                     *)
(*                                                                         *)
(* Strings the code inspects are sequences of lexical tokens: a message is *)
(* a sequence over words, the blank " ", "{{", "link", "}}" and the        *)
(* provider marker "[%1%]"; param1 is a sequence of links and "|"          *)
(* separators, an empty link contributing no token.                        *)
(***************************************************************************)
EXTENDS Integers, Sequences, FiniteSets, TLC

(***************************************************************************)
(* Bounds of the model.  batchSize is the code's `const batchSize = 100`   *)
(* scaled down so that a recipient list spans several batches; everything  *)
(* below is written in terms of batchSize.  MaxWork bounds the work        *)
(* submitted in a run, an invocation counting for one plus the number of   *)
(* its recipient entries; MaxFaults bounds the infrastructure failures (a  *)
(* failed insert, an unreachable or rejecting edge function call)          *)
(* injected in a run.                                                      *)
(***************************************************************************)
batchSize == 2
MaxWork == 5
MaxFaults == 1

\* The most batches for which the progress formula is evaluated.
MaxBatches == 8

\* The longest recipient list of a direct call of the edge function.
MaxAdapterRecipients == 2

Min(a, b) == IF a < b THEN a ELSE b

(***************************************************************************)
(* Input alphabets.                                                        *)
(***************************************************************************)
NoCampaign == ""
Campaigns == {"c1"}

\* An earlier campaign, whose recipient row the tables hold from the start.
EarlierCampaign == "c0"

\* Math.random().toString(36).substring(2, 10).toUpperCase(): the n-th value drawn.
\* Draws are pairwise distinct (collisions are left out of account).
RandomToken(n) == "TK" \o ToString(n)

BookValid == <<"+420777", "+359888", "0888", "+12025">>
BookMixed == <<"null", "", "+359888", " ", "+420777", "undefined">>
Books == {BookValid, BookMixed}

Prefix(book, n) == [i \in 1..n |-> book[((i - 1) % Len(book)) + 1]]

RecipientLists == {Prefix(b, n) : b \in Books, n \in 0..(MaxWork - 1)}

MsgPlain == <<" ", "Hi", " ">>
MsgBlank == <<" ">>
MsgLink0 == <<"Visit", " ", "{{", "link", "}}">>
MsgLink1 == <<"Visit", " ", "{{", " ", "link", " ", "}}">>
MsgLink2 == <<"Visit", " ", "{{", " ", " ", "link", " ", " ", "}}">>
Messages == {MsgPlain, MsgBlank, MsgLink0, MsgLink1, MsgLink2}

Requests ==
    [recipients : RecipientLists, message : Messages,
     campaignId : Campaigns \cup {NoCampaign}, test : BOOLEAN]

(***************************************************************************)
(* String functions of the JavaScript runtime, on token sequences.         *)
(***************************************************************************)
RECURSIVE SkipWs(_, _)
SkipWs(s, i) == IF i <= Len(s) /\ s[i] = " " THEN SkipWs(s, i + 1) ELSE i

RECURSIVE SkipWsBack(_, _)
SkipWsBack(s, i) == IF i >= 1 /\ s[i] = " " THEN SkipWsBack(s, i - 1) ELSE i

\* String.prototype.trim
Trim(s) == SubSeq(s, SkipWs(s, 1), SkipWsBack(s, Len(s)))

\* String.prototype.includes
Includes(s, pat) ==
    \E i \in 1..(Len(s) + 1) :
        /\ i + Len(pat) - 1 <= Len(s)
        /\ SubSeq(s, i, i + Len(pat) - 1) = pat

\* The index at which a match of /\{\{\s*link\s*\}\}/ starting at i ends, 0 if none.
MatchEnd(s, i) ==
    IF i > Len(s) \/ s[i] # "{{" THEN 0
    ELSE LET j == SkipWs(s, i + 1) IN
         IF j > Len(s) \/ s[j] # "link" THEN 0
         ELSE LET k == SkipWs(s, j + 1) IN
              IF k > Len(s) \/ s[k] # "}}" THEN 0 ELSE k

RECURSIVE ReplaceFrom(_, _)
ReplaceFrom(s, i) ==
    IF i > Len(s) THEN <<>>
    ELSE IF MatchEnd(s, i) > 0
         THEN <<"[%1%]">> \o ReplaceFrom(s, MatchEnd(s, i) + 1)
         ELSE <<s[i]>> \o ReplaceFrom(s, i + 1)

\* message.replace(/\{\{\s*link\s*\}\}/g, '[%1%]')
ReplaceLink(s) == ReplaceFrom(s, 1)

\* Array.prototype.join('|') of a list of links
RECURSIVE Join(_)
Join(links) ==
    IF Len(links) = 0 THEN <<>>
    ELSE LET h == IF links[1] = "" THEN <<>> ELSE <<links[1]>> IN
         IF Len(links) = 1 THEN h ELSE h \o <<"|">> \o Join(Tail(links))

\* String.prototype.split('|'): the segments of a joined parameter
RECURSIVE Split(_)
Split(p) ==
    IF Len(p) = 0 THEN <<"">>
    ELSE IF p[1] = "|" THEN <<"">> \o Split(Tail(p))
    ELSE IF Len(p) = 1 THEN <<p[1]>>
    ELSE <<p[1]>> \o Split(SubSeq(p, 3, Len(p)))

(***************************************************************************)
(* Phone strings.  normalizePhoneNumber lives in utils/phoneValidation,    *)
(* which is not among the sources: it is the deterministic, total          *)
(* canonicalisation of the specification, here the national form "0888"    *)
(* of "+359888" mapped to it and every other string left unchanged.        *)
(***************************************************************************)
normalizePhoneNumber(phone) == IF phone = "0888" THEN "+359888" ELSE phone

PhoneTrim(phone) == IF phone = " " THEN "" ELSE phone

\* phone && phone.trim() && phone !== 'null' && phone !== 'undefined'
IsValidRecipient(phone) ==
    /\ phone # ""
    /\ PhoneTrim(phone) # ""
    /\ phone # "null"
    /\ phone # "undefined"

RECURSIVE FilterValid(_)
FilterValid(s) ==
    IF Len(s) = 0 THEN <<>>
    ELSE (IF IsValidRecipient(s[1]) THEN <<s[1]>> ELSE <<>>) \o FilterValid(Tail(s))

\* Mutant: the filter left out.
ValidRecipients_KeepsAll(recipients) == recipients

\* request.recipients.filter(...)
ValidRecipients(recipients) == FilterValid(recipients)

\* request.message.includes('{{ link }}')
HasLinkPlaceholder(message) == Includes(message, <<"{{", " ", "link", " ", "}}">>)

\* for (i = 0; i < n; i += batchSize) batches.push(slice(i, i + batchSize))
RECURSIVE BatchesFrom(_, _)
BatchesFrom(valid, i) ==
    IF i > Len(valid) THEN <<>>
    ELSE <<SubSeq(valid, i, Min(i + batchSize - 1, Len(valid)))>>
             \o BatchesFrom(valid, i + batchSize)

\* Mutant: the recipients are not cut into batches.
Batches_Uncut(valid) == <<valid>>

Batches(valid) == BatchesFrom(valid, 1)

\* `${window.location.origin}/${uniqueToken}`
Link(token) == "https://app.example/" \o token

(***************************************************************************)
(* Result shapes.  A field the JavaScript object does not carry is the     *)
(* empty string, 0, the empty list, or -1 for an absent sentCount.         *)
(***************************************************************************)
Undef == 0 - 1

Err(scope, phone, batch, text) ==
    [scope |-> scope, phone |-> phone, batch |-> batch, text |-> text]

NoError == Err("none", "", 0, "")
Plain(text) == Err("plain", "", 0, text)

Response(success, sentCount, total, ids, cost, error, code, invalid, errors) ==
    [success |-> success, sentCount |-> sentCount, totalRecipients |-> total,
     messageIds |-> ids, cost |-> cost, error |-> error, errorCode |-> code,
     invalidNumbers |-> invalid, errors |-> errors]

Failure(error) == Response(FALSE, Undef, Undef, <<>>, Undef, error, 0, <<>>, <<>>)

NoResponse == Response(FALSE, Undef, Undef, <<>>, Undef, NoError, 0, <<>>, <<>>)

(***************************************************************************)
(* The SMS provider: any answer to a request for n numbers.  The first     *)
(* `count` numbers are reported sent at one point each, the others are     *)
(* listed in invalid_numbers.  An error answer carries a code and possibly *)
(* a message.                                                              *)
(***************************************************************************)
KnownCodes == {11, 13, 14, 101, 103, 105, 112, 203}

ProviderCodes == KnownCodes \cup {999}

ProviderMessages == {"", "Blocked by operator"}

ProviderReplies(n) ==
    {[kind |-> "garbage", error |-> 0, message |-> "", count |-> 0]}
      \cup {[kind |-> "json", error |-> e, message |-> m, count |-> 0]
                : e \in ProviderCodes, m \in ProviderMessages}
      \cup {[kind |-> "json", error |-> 0, message |-> "", count |-> c] : c \in 0..n}

\* smsData.invalid_numbers || []
InvalidNumbers(recipients, reply) ==
    IF reply.kind = "json"
    THEN SubSeq(recipients, reply.count + 1, Len(recipients))
    ELSE <<>>

\* Mutant: the table of fixed messages left out.
ErrorText_Generic(code, message) ==
    "SMS API Error: " \o (IF message # "" THEN message ELSE ToString(code))

\* errorMessages[smsData.error] || `SMS API Error: ${smsData.message || smsData.error}`
ErrorText(code, message) ==
    CASE code = 11 -> "Message too long or contains invalid characters"
      [] code = 13 -> "No valid phone numbers provided"
      [] code = 14 -> "Invalid sender name"
      [] code = 101 -> "Invalid authorization"
      [] code = 103 -> "Insufficient credits"
      [] code = 105 -> "IP address not allowed"
      [] code = 112 -> "Sending to this country is restricted"
      [] code = 203 -> "Too many requests, please try again later"
      [] OTHER -> "SMS API Error: " \o (IF message # "" THEN message ELSE ToString(code))

(***************************************************************************)
(* The edge function send-sms-demo1 (the handler that takes param1).       *)
(* `fetched` tells whether the outbound provider request was made and      *)
(* `form` is the form it carried.                                          *)
(***************************************************************************)
Body(recipients, message, test, hasParam1, param1) ==
    [recipients |-> recipients, message |-> message, test |-> test,
     hasParam1 |-> hasParam1, param1 |-> param1]

NoForm == [to |-> <<>>, message |-> <<>>, hasParam1 |-> FALSE, param1 |-> <<>>,
           test |-> FALSE]

\* Mutant: `if (test) formData.append('test', '1')` left out.
Form_DropsTest(body) ==
    [to |-> body.recipients, message |-> Trim(body.message),
     hasParam1 |-> (body.hasParam1 /\ body.param1 # <<>>),
     param1 |-> IF body.hasParam1 /\ body.param1 # <<>> THEN body.param1 ELSE <<>>,
     test |-> FALSE]

Form(body) ==
    [to |-> body.recipients, message |-> Trim(body.message),
     hasParam1 |-> (body.hasParam1 /\ body.param1 # <<>>),
     param1 |-> IF body.hasParam1 /\ body.param1 # <<>> THEN body.param1 ELSE <<>>,
     test |-> body.test]

Http(status, fetched, form, json) ==
    [status |-> status, fetched |-> fetched, form |-> form, json |-> json]

Adapter(body, tokenConfigured, reply) ==
    IF Len(body.recipients) = 0
    THEN Http(400, FALSE, NoForm,
              Failure(Plain("Recipients array is required and cannot be empty")))
    ELSE IF Len(Trim(body.message)) = 0
    THEN Http(400, FALSE, NoForm, Failure(Plain("Message content is required")))
    ELSE IF ~tokenConfigured
    THEN Http(500, FALSE, NoForm, Failure(Plain("SMSAPI token not configured")))
    ELSE IF reply.kind = "garbage"
    THEN Http(500, TRUE, Form(body),
              Failure(Plain("Invalid response from SMS provider")))
    ELSE IF reply.error # 0
    THEN Http(400, TRUE, Form(body),
              Response(FALSE, Undef, Undef, <<>>, Undef,
                       Plain(ErrorText(reply.error, reply.message)), reply.error,
                       InvalidNumbers(body.recipients, reply), <<>>))
    ELSE Http(200, TRUE, Form(body),
              Response(TRUE, reply.count, Len(body.recipients),
                       SubSeq(body.recipients, 1, reply.count), reply.count,
                       NoError, 0, <<>>, <<>>))

(***************************************************************************)
(* supabase.functions.invoke: { data, error }.  A non-2xx answer and a     *)
(* failed request come back as an error with data null; `thrown` is a      *)
(* rejection of the awaited call.                                          *)
(***************************************************************************)
NonTwoXX == "Edge Function returned a non-2xx status code"
FetchFailed == "Failed to fetch"

\* `form` is the provider request the call led to and `reported` the
\* invalid_numbers of a provider answer the function accepted.
Invoked(kind, data, text, fetched, fault, form, reported) ==
    [kind |-> kind, data |-> data, text |-> text, fetched |-> fetched, fault |-> fault,
     form |-> form, reported |-> reported]

\* `fault` is 1 for an outcome that counts as an injected failure: the function
\* unreachable, the call rejecting, or SMSAPI_TOKEN not configured.
InvokeOutcomes(body) ==
    {Invoked("error", NoResponse, FetchFailed, FALSE, 1, NoForm, <<>>),
     Invoked("thrown", NoResponse, "rejected", FALSE, 1, NoForm, <<>>)}
      \cup {LET http == Adapter(body, tok, reply) IN
            IF http.status = 200
            THEN Invoked("data", http.json, "", http.fetched, 0, http.form,
                         InvalidNumbers(body.recipients, reply))
            ELSE Invoked("error", NoResponse, NonTwoXX, http.fetched,
                         IF tok THEN 0 ELSE 1, http.form, <<>>)
            : tok \in BOOLEAN, reply \in ProviderReplies(Len(body.recipients))}

(***************************************************************************)
(* State.                                                                  *)
(***************************************************************************)
VARIABLES
    sending, progress,          \* useState of the hook
    intervalActive,             \* sendBulkSMS's progress interval is set
    resetTimers,                \* pending setTimeout(() => setProgress(0), 1000)
    pc,                         \* where the invocation of sendSMS is suspended
    request,                    \* its argument
    validRecipients, hasLinkPlaceholder, batchIndex, batchRecipients, batchLinks,
    results,                    \* locals of the personalized path
    returned,                   \* the value the last invocation resolved to
    users, campaign_recipients, bulk_messages,     \* tables
    rand,                       \* values drawn from Math.random so far
    invocations, submitted, faults,  \* invocations started, work submitted,
                                \* failures injected
    calls,                      \* supabase.functions.invoke calls of this invocation
    providerRequests,           \* provider requests made for this invocation
    dbWrites,                   \* rows inserted or updated by this invocation's resolver
    insertFailures,             \* inserts of this invocation's resolver that failed
    logRows,                    \* bulk_messages rows written by this invocation
    logOutcome,                 \* how this invocation's bulk_messages insert ended
    yielded,                    \* tokens the resolver has returned, per campaign and phone
    progressLog,                \* values the batch loop of this invocation passed to
                                \* setProgress
    served,                     \* a direct call of the edge function and its answer
    detected,                   \* a phone string and the country detected for it
    resolvers,                  \* concurrent resolutions of one recipient
    panel                       \* useState of the SMS panel and its last handleSend

hookVars == <<sending, progress, intervalActive, resetTimers>>
localVars == <<request, validRecipients, hasLinkPlaceholder, batchIndex,
               batchRecipients, batchLinks, results>>
dbVars == <<users, campaign_recipients, bulk_messages>>
traceVars == <<calls, providerRequests, dbWrites, insertFailures, logRows, logOutcome,
               yielded, progressLog>>
envVars == <<rand, invocations, submitted, faults>>
sliceVars == <<served, detected, resolvers, panel>>
vars == <<hookVars, pc, localVars, returned, dbVars, envVars, traceVars, sliceVars>>

NoRequest == [recipients |-> <<>>, message |-> <<>>, campaignId |-> NoCampaign,
              test |-> FALSE]

\* const results = { success: true, sentCount: 0, totalRecipients, ... }
NewResults(valid) == Response(TRUE, 0, Len(valid), <<>>, 0, NoError, 0, <<>>, <<>>)

\* The rows the tables hold before the first send.
SeedUsers == <<[phone_number |-> "+359888", status |-> "active"]>>

SeedRecipients ==
    <<[campaign_id |-> EarlierCampaign, user_id |-> 1, status |-> "sent",
       unique_token |-> "TK0"]>>

\* useSMS before any invocation.
HookIdle ==
    /\ sending = FALSE
    /\ progress = 0
    /\ intervalActive = FALSE
    /\ resetTimers = 0
    /\ pc = "idle"
    /\ request = NoRequest
    /\ validRecipients = <<>>
    /\ hasLinkPlaceholder = FALSE
    /\ batchIndex = 0
    /\ batchRecipients = <<>>
    /\ batchLinks = <<>>
    /\ results = NoResponse
    /\ returned = NoResponse
    /\ bulk_messages = <<>>
    /\ rand = 0
    /\ invocations = 0
    /\ submitted = 0
    /\ faults = 0
    /\ calls = <<>>
    /\ providerRequests = 0
    /\ dbWrites = 0
    /\ insertFailures = 0
    /\ logRows = 0
    /\ logOutcome = "none"
    /\ yielded = {}
    /\ progressLog = <<>>

\* Mutant: the finally block does not reset the sending flag.
Return_KeepsSending(result) ==
    /\ returned' = result
    /\ sending' = sending
    /\ resetTimers' = resetTimers + 1
    /\ pc' = "returned"

(***************************************************************************)
(* return ...; finally { setSending(false); setTimeout(..., 1000) }        *)
(***************************************************************************)
Return(result) ==
    /\ returned' = result
    /\ sending' = FALSE
    /\ resetTimers' = resetTimers + 1
    /\ pc' = "returned"

\* if (!request.campaignId && !hasLinkPlaceholder)
TakesPlainPath(req) == req.campaignId = NoCampaign /\ ~HasLinkPlaceholder(req.message)

\* sendBulkSMS's request body
PlainBody(recipients, message, test) == Body(recipients, Trim(message), test, FALSE, <<>>)

(***************************************************************************)
(* sendSMS up to its first await: validation and the choice of path.       *)
(***************************************************************************)
SendSMS(req) ==
    /\ pc \in {"idle", "returned"}
    /\ UNCHANGED sliceVars
    /\ submitted + Len(req.recipients) + 1 <= MaxWork
    /\ invocations' = invocations + 1
    /\ submitted' = submitted + Len(req.recipients) + 1
    /\ request' = req
    /\ calls' = <<>>
    /\ providerRequests' = 0
    /\ dbWrites' = 0
    /\ insertFailures' = 0
    /\ logRows' = 0
    /\ logOutcome' = "none"
    /\ progressLog' = <<>>
    /\ validRecipients' = ValidRecipients(req.recipients)
    /\ hasLinkPlaceholder' = HasLinkPlaceholder(req.message)
    /\ batchRecipients' = <<>>
    /\ batchLinks' = <<>>
    /\ UNCHANGED <<dbVars, rand, faults, yielded>>
    /\ IF Len(req.recipients) = 0
       THEN /\ Return(Failure(Plain("No recipients provided")))
            /\ progress' = 0
            /\ batchIndex' = 0
            /\ results' = NoResponse
            /\ UNCHANGED intervalActive
       ELSE IF Len(ValidRecipients(req.recipients)) = 0
       THEN /\ Return(Failure(Plain("No valid recipients found")))
            /\ progress' = 0
            /\ batchIndex' = 0
            /\ results' = NoResponse
            /\ UNCHANGED intervalActive
       ELSE IF TakesPlainPath(req)
       THEN /\ pc' = "plain"
            /\ sending' = TRUE
            /\ progress' = 0
            /\ intervalActive' = TRUE
            /\ returned' = NoResponse
            /\ batchIndex' = 0
            /\ results' = NoResponse
            /\ UNCHANGED resetTimers
       ELSE /\ pc' = "resolve"
            /\ sending' = TRUE
            /\ progress' = 0
            /\ batchIndex' = 1
            /\ results' = NewResults(ValidRecipients(req.recipients))
            /\ returned' = NoResponse
            /\ UNCHANGED <<intervalActive, resetTimers>>

\* The text sendBulkSMS throws for an invoke error.
PlainErrorText(text) ==
    IF text = FetchFailed
    THEN "Unable to connect to SMS service. Please check your internet connection and Supabase configuration."
    ELSE IF text = NonTwoXX
    THEN "SMS service returned an error. Please check that SMSAPI_TOKEN is configured in Supabase Edge Functions settings."
    ELSE text

Call(body, out) ==
    [body |-> body, kind |-> out.kind, data |-> out.data, form |-> out.form,
     reported |-> out.reported]

(***************************************************************************)
(* sendBulkSMS after its await, and sendSMS's return of its result.        *)
(***************************************************************************)
PlainReturn ==
    /\ pc = "plain"
    /\ UNCHANGED sliceVars
    /\ \E body \in {PlainBody(validRecipients, request.message, request.test)} :
       \E out \in InvokeOutcomes(body) :
        /\ faults + out.fault <= MaxFaults
        /\ faults' = faults + out.fault
        /\ calls' = Append(calls, Call(body, out))
        /\ providerRequests' = providerRequests + (IF out.fetched THEN 1 ELSE 0)
        /\ intervalActive' = FALSE
        /\ progress' = IF out.kind = "thrown" THEN progress ELSE 100
        /\ Return(IF out.kind = "data" THEN out.data
                  ELSE IF out.kind = "error" THEN Failure(Plain(PlainErrorText(out.text)))
                  ELSE Failure(Plain(out.text)))
    /\ UNCHANGED <<localVars, dbVars, rand, invocations, submitted, dbWrites,
                   insertFailures, logRows, logOutcome, yielded, progressLog>>

(***************************************************************************)
(* The resolver: lines 95-166 for one recipient of a campaign send.        *)
(* .single() answers with an error unless exactly one row matches.         *)
(***************************************************************************)
UserIds(us, phone) == {i \in 1..Len(us) : us[i].phone_number = phone}

RecipientIds(crs, campaignId, userId) ==
    {j \in 1..Len(crs) : crs[j].campaign_id = campaignId /\ crs[j].user_id = userId}

Single(rows) == Cardinality(rows) = 1

Resolved(us, crs, token, threw, writes, draws, failures) ==
    [users |-> us, recipients |-> crs, token |-> token, threw |-> threw,
     writes |-> writes, draws |-> draws, failures |-> failures]

\* Mutant: a token is generated although the row exists.
ExistingToken_Regenerated(crs, j, n) == RandomToken(n + 1)

\* The token of the recipient row found by the lookup.
ExistingToken(crs, j, n) == crs[j].unique_token

\* Mutant: `if (createRecipientError) throw createRecipientError` left out.
FindOrCreateRecipient_SwallowsFailure(us, crs, campaignId, userId, w, n, recipientFails) ==
    LET rec == RecipientIds(crs, campaignId, userId) IN
    IF ~Single(rec)
    THEN IF recipientFails
         THEN Resolved(us, crs, RandomToken(n + 1), FALSE, w, 1, 1)
         ELSE Resolved(us,
                       Append(crs, [campaign_id |-> campaignId, user_id |-> userId,
                                    status |-> "sent", unique_token |-> RandomToken(n + 1)]),
                       RandomToken(n + 1), FALSE, w + 1, 1, 0)
    ELSE LET j == CHOOSE k \in rec : TRUE IN
         Resolved(us, [crs EXCEPT ![j].status = "sent"], crs[j].unique_token,
                  FALSE, w + 1, 0, 0)

FindOrCreateRecipient(us, crs, campaignId, userId, w, n, recipientFails) ==
    LET rec == RecipientIds(crs, campaignId, userId) IN
    IF ~Single(rec)
    THEN IF recipientFails
         THEN Resolved(us, crs, "", TRUE, w, 1, 1)
         ELSE Resolved(us,
                       Append(crs, [campaign_id |-> campaignId, user_id |-> userId,
                                    status |-> "sent", unique_token |-> RandomToken(n + 1)]),
                       RandomToken(n + 1), FALSE, w + 1, 1, 0)
    ELSE LET j == CHOOSE k \in rec : TRUE IN
         Resolved(us, [crs EXCEPT ![j].status = "sent"], ExistingToken(crs, j, n),
                  FALSE, w + 1, 0, 0)

\* Mutant: the users row is inserted without looking the phone up first.
ResolveCampaign_InsertsBlindly(phone, campaignId, us, crs, n, userFails, recipientFails) ==
    IF userFails
    THEN Resolved(us, crs, "", TRUE, 0, 0, 1)
    ELSE FindOrCreateRecipient(
             Append(us, [phone_number |-> phone, status |-> "active"]), crs,
             campaignId, Len(us) + 1, 1, n, recipientFails)

ResolveCampaign(phone, campaignId, us, crs, n, userFails, recipientFails) ==
    LET found == UserIds(us, phone) IN
    IF ~Single(found)
    THEN IF userFails
         THEN Resolved(us, crs, "", TRUE, 0, 0, 1)
         ELSE FindOrCreateRecipient(
                  Append(us, [phone_number |-> phone, status |-> "active"]), crs,
                  campaignId, Len(us) + 1, 1, n, recipientFails)
    ELSE FindOrCreateRecipient(us, crs, campaignId, CHOOSE i \in found : TRUE, 0, n,
                               recipientFails)

\* Mutant: the token of a bare link is stored as a campaign_recipients row.
ResolveBare_Persists(us, crs, n) ==
    Resolved(us, Append(crs, [campaign_id |-> NoCampaign, user_id |-> 1,
                              status |-> "sent", unique_token |-> RandomToken(n + 1)]),
             RandomToken(n + 1), FALSE, 1, 1, 0)

\* else if (hasLinkPlaceholder) uniqueToken = Math.random()...
ResolveBare(us, crs, n) == Resolved(us, crs, RandomToken(n + 1), FALSE, 0, 1, 0)

\* The text pushed for a failed insert: the error's message, or 'Unknown error'.
InsertFailed == "insert failed"

\* hasLinkPlaceholder && uniqueToken ? `${origin}/${uniqueToken}` : ''
BatchLink(hasLink, r) ==
    IF r.threw THEN "" ELSE IF hasLink /\ r.token # "" THEN Link(r.token) ELSE ""

CurrentBatch == Batches(validRecipients)[batchIndex]

Yield(campaignId, phone, token) ==
    [campaign_id |-> campaignId, phone |-> phone, token |-> token,
     invocation |-> invocations,
     again |-> \E y \in yielded : /\ y.campaign_id = campaignId
                                  /\ y.phone = phone
                                  /\ y.invocation = invocations]

(***************************************************************************)
(* One iteration of `for (const phone of batch)`.                          *)
(***************************************************************************)
ResolveRecipient ==
    /\ pc = "resolve"
    /\ UNCHANGED sliceVars
    /\ Len(batchRecipients) < Len(CurrentBatch)
    /\ LET phone == CurrentBatch[Len(batchRecipients) + 1]
           normalizedPhone == normalizePhoneNumber(phone)
       IN \E userFails, recipientFails \in BOOLEAN :
            \E r \in {IF request.campaignId # NoCampaign
                      THEN ResolveCampaign(normalizedPhone, request.campaignId, users,
                                           campaign_recipients, rand, userFails,
                                           recipientFails)
                      ELSE ResolveBare(users, campaign_recipients, rand)} :
               /\ faults + r.failures <= MaxFaults
               /\ faults' = faults + r.failures
               /\ users' = r.users
               /\ campaign_recipients' = r.recipients
               /\ rand' = rand + r.draws
               /\ dbWrites' = dbWrites + r.writes
               /\ insertFailures' = insertFailures + r.failures
               /\ batchRecipients' = Append(batchRecipients, normalizedPhone)
               /\ batchLinks' = Append(batchLinks, BatchLink(hasLinkPlaceholder, r))
               /\ results' =
                     IF r.threw
                     THEN [results EXCEPT !.errors =
                              Append(@, Err("recipient", normalizedPhone, 0, InsertFailed))]
                     ELSE results
               /\ yielded' =
                     IF request.campaignId # NoCampaign /\ ~r.threw
                     THEN yielded \cup {Yield(request.campaignId, normalizedPhone, r.token)}
                     ELSE yielded
    /\ UNCHANGED <<hookVars, pc, request, validRecipients, hasLinkPlaceholder, batchIndex,
                   returned, bulk_messages, invocations, submitted, calls,
                   providerRequests, logRows, logOutcome, progressLog>>

\* hasLinkPlaceholder ? request.message.replace(/\{\{\s*link\s*\}\}/g, '[%1%]') : request.message
BatchMessage(message, hasLink) == IF hasLink THEN ReplaceLink(message) ELSE message

\* The body of the batch's invoke call.
BatchBody(recipients, links, message, hasLink, test) ==
    Body(recipients, Trim(BatchMessage(message, hasLink)), test, hasLink,
         IF hasLink THEN Join(links) ELSE <<>>)

BatchError(k, text) == Err("batch", "", k, text)

\* Mutant: the catch around the batch's call records nothing.
HandleBatch_DropsThrown(res, k, out) ==
    IF out.kind = "thrown" THEN res
    ELSE IF out.kind = "error"
    THEN [res EXCEPT !.errors = Append(@, BatchError(k, out.text))]
    ELSE [res EXCEPT !.sentCount = @ + (IF out.data.sentCount = Undef THEN 0
                                         ELSE out.data.sentCount),
                     !.messageIds = @ \o out.data.messageIds,
                     !.cost = @ + (IF out.data.cost = Undef THEN 0 ELSE out.data.cost)]

\* Lines 200-219: what a batch's outcome does to `results`.
HandleBatch(res, k, out) ==
    IF out.kind = "error" \/ out.kind = "thrown"
    THEN [res EXCEPT !.errors = Append(@, BatchError(k, out.text))]
    ELSE IF out.data.success
    THEN [res EXCEPT !.sentCount = @ + (IF out.data.sentCount = Undef THEN 0
                                         ELSE out.data.sentCount),
                     !.messageIds = @ \o out.data.messageIds,
                     !.cost = @ + (IF out.data.cost = Undef THEN 0 ELSE out.data.cost)]
    ELSE [res EXCEPT !.errors = Append(@, BatchError(k,
                                  IF out.data.error = NoError THEN "Unknown error"
                                  ELSE out.data.error.text)),
                     !.invalidNumbers = @ \o out.data.invalidNumbers]

\* Mutant: the share of the batches done out of 100, capped at 90.
ProgressPercent_OutOf100(k, n) == Min((2 * k * 100 + n) \div (2 * n), 90)

\* Math.round(((batchIndex + 1) / batches.length) * 90), batchIndex counted from 1 here.
\* Exact arithmetic: the floating-point product equals it for fewer than 20 batches
\* (at 7 of 20 it falls just short of 31.5).
ProgressPercent(k, n) == (2 * k * 90 + n) \div (2 * n)

\* Lines 228-232.
Overall(res) ==
    IF res.sentCount = 0
    THEN [res EXCEPT !.success = FALSE,
                     !.error = IF Len(res.errors) > 0 THEN res.errors[1]
                               ELSE Plain("No messages were sent successfully")]
    ELSE res

\* if (results.success && results.sentCount > 0)
ShouldLog(res, req) == res.success /\ res.sentCount > 0

\* Mutant: the gateway call is issued as soon as one recipient is resolved.
BatchComplete_Early(resolved, batch) == Len(resolved) >= 1

\* The `for (const phone of batch)` loop has run to its end: every iteration is
\* awaited before the next one and before the batch's invoke.
BatchComplete(resolved, batch) == Len(resolved) = Len(batch)

(***************************************************************************)
(* The batch's gateway call and what follows it up to the next await: the  *)
(* next batch's resolution, the log insert, or the return.                 *)
(***************************************************************************)
SendBatch ==
    /\ pc = "resolve"
    /\ UNCHANGED sliceVars
    /\ BatchComplete(batchRecipients, CurrentBatch)
    /\ \E body \in {BatchBody(batchRecipients, batchLinks, request.message,
                              hasLinkPlaceholder, request.test)} :
       LET last == batchIndex = Len(Batches(validRecipients))
       IN \E out \in InvokeOutcomes(body) :
            LET final == Overall(HandleBatch(results, batchIndex, out)) IN
            /\ faults + out.fault <= MaxFaults
            /\ faults' = faults + out.fault
            /\ calls' = Append(calls, Call(body, out))
            /\ providerRequests' = providerRequests + (IF out.fetched THEN 1 ELSE 0)
            /\ batchRecipients' = <<>>
            /\ batchLinks' = <<>>
            /\ IF ~last
               THEN /\ results' = HandleBatch(results, batchIndex, out)
                    /\ batchIndex' = batchIndex + 1
                    /\ progress' = ProgressPercent(batchIndex, Len(Batches(validRecipients)))
                    /\ progressLog' = Append(progressLog, progress')
                    /\ UNCHANGED <<pc, returned, sending, resetTimers>>
               ELSE /\ results' = final
                    /\ progress' = 100
                    /\ progressLog' =
                          progressLog \o <<ProgressPercent(batchIndex,
                                                           Len(Batches(validRecipients))),
                                           100>>
                    /\ UNCHANGED batchIndex
                    /\ IF ShouldLog(final, request)
                       THEN /\ pc' = "log"
                            /\ UNCHANGED <<returned, sending, resetTimers>>
                       ELSE Return(final)
    /\ UNCHANGED <<intervalActive, request, validRecipients, hasLinkPlaceholder, dbVars,
                   rand, invocations, submitted, dbWrites, insertFailures, logRows,
                   logOutcome, yielded>>

\* Mutant: recipient_count taken from one batch instead of all valid recipients.
LogRow_CountsBatch(req, valid, res) ==
    [type |-> "sms", content |-> req.message,
     recipient_count |-> Min(Len(valid), batchSize),
     sent_count |-> res.sentCount, status |-> "completed",
     campaign_id |-> req.campaignId]

\* The row logSMSCampaign inserts.
LogRow(req, valid, res) ==
    [type |-> "sms", content |-> req.message, recipient_count |-> Len(valid),
     sent_count |-> res.sentCount, status |-> "completed",
     campaign_id |-> req.campaignId]

\* How the insert of logSMSCampaign can end: a row, an error result, a rejection.
InsertOutcomes == {"ok", "error", "thrown"}

\* Mutant: a rejected insert reaches sendSMS's catch.
AfterLog_Surfaces(res, outcome) ==
    IF outcome = "thrown" THEN Failure(Plain(InsertFailed)) ELSE res

\* What sendSMS returns after `await logSMSCampaign(...)`: the try/catch of
\* logSMSCampaign swallows a rejection and the insert's result is not looked at.
AfterLog(res, outcome) == res

(***************************************************************************)
(* logSMSCampaign and the return.                                          *)
(***************************************************************************)
LogCampaign ==
    /\ pc = "log"
    /\ UNCHANGED sliceVars
    /\ \E outcome \in InsertOutcomes :
        /\ faults + (IF outcome = "ok" THEN 0 ELSE 1) <= MaxFaults
        /\ faults' = faults + (IF outcome = "ok" THEN 0 ELSE 1)
        /\ bulk_messages' = IF outcome = "ok"
                            THEN Append(bulk_messages,
                                        LogRow(request, validRecipients, results))
                            ELSE bulk_messages
        /\ logRows' = logRows + (IF outcome = "ok" THEN 1 ELSE 0)
        /\ logOutcome' = outcome
        /\ Return(AfterLog(results, outcome))
    /\ UNCHANGED <<progress, intervalActive, localVars, users, campaign_recipients, rand,
                   invocations, submitted, calls, providerRequests, dbWrites,
                   insertFailures, yielded, progressLog>>

\* setInterval(() => setProgress(prev => Math.min(prev + 10, 90)), 200)
IntervalTick ==
    /\ intervalActive
    /\ UNCHANGED sliceVars
    /\ progress' = Min(progress + 10, 90)
    /\ UNCHANGED <<sending, intervalActive, resetTimers, pc, localVars, returned, dbVars,
                   envVars, traceVars>>

\* setTimeout(() => setProgress(0), 1000)
TimerFire ==
    /\ resetTimers > 0
    /\ UNCHANGED sliceVars
    /\ resetTimers' = resetTimers - 1
    /\ progress' = 0
    /\ UNCHANGED <<sending, intervalActive, pc, localVars, returned, dbVars,
                   envVars, traceVars>>

(***************************************************************************)
(* The edge function send-sms-demo1, the handler that takes campaignId     *)
(* (Deno.serve): it resolves users, campaign recipients and links itself   *)
(* and logs the send.  `cfg` tells which settings are present and which    *)
(* short_id the campaign has, `fault` which database statement, if any,    *)
(* answers with an error.                                                  *)
(***************************************************************************)
publicBaseUrl == "https://your-domain.com"

DbFaults == {"campaign", "usersSelect", "usersInsert", "recipientsSelect",
             "recipientsInsert", "recipientsUpdate", "log"}

Config(supabase, token, shortId) ==
    [supabase |-> supabase, token |-> token, shortId |-> shortId]

Configs == {Config(TRUE, TRUE, "s1"), Config(TRUE, TRUE, ""), Config(FALSE, TRUE, "s1"),
            Config(TRUE, FALSE, "s1")}

CampaignBody(recipients, message, test, campaignId) ==
    [recipients |-> recipients, message |-> message, test |-> test,
     campaignId |-> campaignId]

Max(S) == CHOOSE x \in S : \A y \in S : y <= x

\* What a call of the handler leaves behind: the answer and the tables.
Served(http, us, crs, bulk, draws, writes) ==
    [http |-> http, users |-> us, recipients |-> crs, bulk |-> bulk, draws |-> draws,
     writes |-> writes]

\* `${publicBaseUrl}/c/${campaignShortId}?token=${token}`, `${publicBaseUrl}/${token}`
PersonalizedLink(campaignId, shortId, hasToken, token) ==
    IF campaignId # NoCampaign /\ shortId # "" /\ hasToken
    THEN publicBaseUrl \o "/c/" \o shortId \o "?token=" \o token
    ELSE IF hasToken THEN publicBaseUrl \o "/" \o token
    ELSE publicBaseUrl

\* The bulk_messages row of the handler.
BulkRow(body, sentCount, status) ==
    [type |-> "sms", content |-> body.message, recipient_count |-> Len(body.recipients),
     sent_count |-> sentCount, status |-> status, campaign_id |-> body.campaignId]

\* Steps 8 to 13: the provider request, the log row and the answer.
SendAndLog(body, cfg, reply, fault, us, crs, confirmed, bulk, draws, writes, hasLink, links) ==
    LET personalize == hasLink /\ Len(links) > 0
        finalMessage == IF personalize THEN ReplaceLink(Trim(body.message))
                        ELSE Trim(body.message)
        param1Value == IF personalize THEN Join(links) ELSE <<>>
        form == [to |-> body.recipients, message |-> finalMessage,
                 hasParam1 |-> param1Value # <<>>, param1 |-> param1Value,
                 test |-> body.test]
        logs == ~body.test /\ fault # "log"
    IN IF ~cfg.token
       THEN Served(Http(500, FALSE, NoForm, Failure(Plain("SMSAPI token not configured"))),
                   us, crs, bulk, draws, writes)
       ELSE IF reply.kind = "garbage"
       THEN Served(Http(500, TRUE, form,
                        Failure(Plain("Invalid response from SMS provider"))),
                   us, crs, bulk, draws, writes)
       ELSE IF reply.error # 0
       THEN Served(Http(400, TRUE, form,
                        Response(FALSE, Undef, Undef, <<>>, Undef,
                                 Plain(ErrorText(reply.error, reply.message)),
                                 reply.error, InvalidNumbers(body.recipients, reply),
                                 <<>>)),
                   us, crs,
                   IF logs THEN Append(bulk, BulkRow(body, 0, "failed")) ELSE bulk,
                   draws, writes + (IF logs THEN 1 ELSE 0))
       ELSE Served(Http(200, TRUE, form,
                        Response(TRUE, reply.count, Len(body.recipients),
                                 SubSeq(body.recipients, 1, reply.count), reply.count,
                                 NoError, 0, InvalidNumbers(body.recipients, reply),
                                 <<>>)),
                   us,
                   [j \in 1..Len(crs) |->
                       IF j \in confirmed[reply.count]
                       THEN [crs[j] EXCEPT !.status = "sent"] ELSE crs[j]],
                   IF logs
                   THEN Append(bulk, BulkRow(body, reply.count,
                                   IF reply.count > 0 THEN "completed" ELSE "failed"))
                   ELSE bulk,
                   draws,
                   writes + Cardinality(confirmed[reply.count]) + (IF logs THEN 1 ELSE 0))

\* Step 5 and 6: campaign recipients and links, then the send.
ResolveRecipients(body, cfg, reply, fault, us0, us, crs, bulk, n, hasLink) ==
    LET recipients == body.recipients
        inserted == Len(us) - Len(us0)
        userId(phone) == IF UserIds(us0, phone) # {} THEN Max(UserIds(us0, phone))
                         ELSE Max(UserIds(us, phone))
        existing(phone) ==
            {j \in 1..Len(crs) : /\ crs[j].campaign_id = body.campaignId
                                 /\ crs[j].user_id = userId(phone)}
        NeedsToken(i) == existing(recipients[i]) = {}
        fresh == SelectSeq([i \in 1..Len(recipients) |-> i], NeedsToken)
        rank(i) == Cardinality({k \in 1..i : NeedsToken(k)})
        newCampaignRecipients ==
            [k \in 1..Len(fresh) |->
                [campaign_id |-> body.campaignId, user_id |-> userId(recipients[fresh[k]]),
                 status |-> "sent", unique_token |-> RandomToken(n + k)]]
        token(phone) ==
            IF existing(phone) # {} THEN crs[Max(existing(phone))].unique_token
            ELSE RandomToken(n + rank(Max({i \in 1..Len(recipients) :
                                              recipients[i] = phone})))
        updated == IF fault = "recipientsUpdate" THEN {}
                   ELSE UNION {existing(recipients[i]) : i \in 1..Len(recipients)}
        crs2 == [j \in 1..Len(crs) |->
                    IF j \in updated THEN [crs[j] EXCEPT !.status = "sent"] ELSE crs[j]]
                  \o newCampaignRecipients
        \* Step 11: the rows of the numbers the provider lists as sent.
        confirmed == [c \in 0..Len(recipients) |->
                        {j \in 1..Len(crs2) :
                            /\ crs2[j].campaign_id = body.campaignId
                            /\ \E i \in 1..c : crs2[j].user_id = userId(recipients[i])}]
        nothing == [c \in 0..Len(recipients) |-> {}]
        links(withTokens) ==
            IF hasLink
            THEN [i \in 1..Len(recipients) |->
                     PersonalizedLink(body.campaignId, cfg.shortId, withTokens,
                                      IF withTokens THEN token(recipients[i]) ELSE "")]
            ELSE <<>>
    IN IF body.campaignId = NoCampaign
       THEN SendAndLog(body, cfg, reply, fault, us, crs, nothing, bulk, 0, inserted,
                       hasLink, links(FALSE))
       ELSE IF fault = "recipientsSelect"
       THEN Served(Http(500, FALSE, NoForm,
                        Failure(Plain("Failed to fetch existing campaign recipients"))),
                   us, crs, bulk, 0, inserted)
       ELSE IF Len(fresh) > 0 /\ fault = "recipientsInsert"
       THEN Served(Http(500, FALSE, NoForm,
                        Failure(Plain("Failed to create campaign recipients"))),
                   us, crs, bulk, Len(fresh), inserted)
       ELSE SendAndLog(body, cfg, reply, fault, us, crs2, confirmed, bulk, Len(fresh),
                       inserted + Len(fresh) + Cardinality(updated), hasLink,
                       links(TRUE))

\* The handler: validation, configuration, campaign and user resolution.
DenoServe(body, cfg, reply, fault, us, crs, bulk, n) ==
    LET recipients == body.recipients
        hasLink == HasLinkPlaceholder(body.message)
        IsNew(phone) == UserIds(us, phone) = {}
        newUsers == SelectSeq(recipients, IsNew)
        us2 == us \o [i \in 1..Len(newUsers) |->
                        [phone_number |-> newUsers[i], status |-> "active"]]
    IN IF Len(recipients) = 0
       THEN Served(Http(400, FALSE, NoForm,
                        Failure(Plain("Recipients array is required and cannot be empty"))),
                   us, crs, bulk, 0, 0)
       ELSE IF Len(Trim(body.message)) = 0
       THEN Served(Http(400, FALSE, NoForm, Failure(Plain("Message content is required"))),
                   us, crs, bulk, 0, 0)
       ELSE IF ~cfg.supabase
       THEN Served(Http(500, FALSE, NoForm, Failure(Plain("Supabase configuration missing"))),
                   us, crs, bulk, 0, 0)
       ELSE IF body.campaignId # NoCampaign /\ hasLink /\ fault = "campaign"
       THEN Served(Http(400, FALSE, NoForm,
                        Failure(Plain("Campaign not found or invalid campaign ID"))),
                   us, crs, bulk, 0, 0)
       ELSE IF fault = "usersSelect"
       THEN Served(Http(500, FALSE, NoForm,
                        Failure(Plain("Failed to fetch existing users from database"))),
                   us, crs, bulk, 0, 0)
       ELSE IF Len(newUsers) > 0 /\ fault = "usersInsert"
       THEN Served(Http(500, FALSE, NoForm,
                        Failure(Plain("Failed to create new users in database"))),
                   us, crs, bulk, 0, 0)
       ELSE ResolveRecipients(body, cfg, reply, fault, us, us2, crs, bulk, n, hasLink)

(***************************************************************************)
(* One call of the edge function, by either handler, on any request.       *)
(***************************************************************************)
AdapterPhones == {"+359888", "+420777"}

AdapterLists == UNION {[1..n -> AdapterPhones] : n \in 0..MaxAdapterRecipients}

AdapterMessages == {MsgPlain, MsgBlank, MsgLink0, MsgLink1, <<"Visit", " ", "[%1%]">>}

\* The settings and the database as one call finds them: at most one thing is
\* missing or failing.
Environments ==
    {[cfg |-> c, fault |-> "none"] : c \in Configs}
      \cup {[cfg |-> Config(TRUE, TRUE, "s1"), fault |-> f] : f \in DbFaults}

Param1s == {[has |-> FALSE, value |-> <<>>], [has |-> TRUE, value |-> <<>>],
            [has |-> TRUE, value |-> <<"L1", "|", "L2">>]}

Call1(handler, body, token, reply, fault, r) ==
    [handler |-> handler, body |-> body, token |-> token, reply |-> reply,
     fault |-> fault, http |-> r.http, writes |-> r.writes]

NotServed ==
    Call1("none", NoRequest, FALSE, [kind |-> "garbage", error |-> 0, message |-> "",
                                      count |-> 0],
          "none", [http |-> Http(0, FALSE, NoForm, NoResponse), writes |-> 0])

Serve ==
    /\ served.handler = "none"
    /\ \E recipients \in AdapterLists, message \in AdapterMessages, test \in BOOLEAN,
          p \in Param1s, token \in BOOLEAN :
          \E reply \in ProviderReplies(Len(recipients)) :
            LET body == Body(recipients, message, test, p.has, p.value) IN
            served' = Call1("serve", body, token, reply, "none",
                            [http |-> Adapter(body, token, reply), writes |-> 0])
    /\ UNCHANGED <<hookVars, pc, localVars, returned, dbVars, envVars, traceVars,
                   detected, resolvers, panel>>

DenoServeCall ==
    /\ served.handler = "none"
    /\ \E recipients \in AdapterLists, message \in AdapterMessages, test \in BOOLEAN,
          campaignId \in Campaigns \cup {NoCampaign}, env \in Environments :
          \E reply \in ProviderReplies(Len(recipients)) :
            LET body == CampaignBody(recipients, message, test, campaignId)
                r == DenoServe(body, env.cfg, reply, env.fault, users,
                               campaign_recipients, bulk_messages, rand)
            IN /\ served' = Call1("Deno.serve", body, env.cfg.token, reply, env.fault, r)
               /\ users' = r.users
               /\ campaign_recipients' = r.recipients
               /\ bulk_messages' = r.bulk
               /\ rand' = rand + r.draws
    /\ UNCHANGED <<hookVars, pc, localVars, returned, invocations, submitted, faults,
                   traceVars, detected, resolvers, panel>>

(***************************************************************************)
(* Next: the steps of sendSMS.  The two timer callbacks only write         *)
(* `progress`; NextTimed adds them.                                        *)
(***************************************************************************)
NotDetected == [phone |-> <<>>, country |-> ""]

NoResolvers == <<>>

\* useState("all"), useState([]), useState("") and no handleSend yet.
PanelIdle ==
    [recipientFilter |-> "all", selectedUserIds |-> <<>>, userSearchTerm |-> <<>>,
     handled |-> FALSE, shown |-> 0, called |-> FALSE, recipients |-> <<>>]

Init ==
    /\ HookIdle
    /\ users = SeedUsers
    /\ campaign_recipients = SeedRecipients
    /\ served = NotServed
    /\ detected = NotDetected
    /\ panel = PanelIdle
    /\ resolvers = NoResolvers

Next ==
    \/ \E req \in Requests : SendSMS(req)
    \/ PlainReturn
    \/ ResolveRecipient
    \/ SendBatch
    \/ LogCampaign

Spec == Init /\ [][Next]_vars

(***************************************************************************)
(* The hook when every awaited call comes back: the continuation of an     *)
(* await runs once the awaited database or gateway call has settled.       *)
(***************************************************************************)
Continue ==
    \/ PlainReturn
    \/ ResolveRecipient
    \/ SendBatch
    \/ LogCampaign

\* Live sends of a plain, a blank and a link message.
ReturningRequests ==
    {req \in Requests : ~req.test /\ req.message \in {MsgPlain, MsgBlank, MsgLink1}}

NextReturning ==
    \/ \E req \in ReturningRequests : SendSMS(req)
    \/ Continue

SpecReturning == Init /\ [][NextReturning]_vars /\ WF_vars(Continue)

(***************************************************************************)
(* The recipient selection of the SMS panel (SMSManager): the radio        *)
(* buttons, the search box, the check boxes of the listed users, the       *)
(* select-all button and the send button.  Names, phones, e-mail addresses *)
(* and the search term are sequences of characters.                        *)
(***************************************************************************)
PanelUser(id, name, phoneNumber, email, status) ==
    [id |-> id, name |-> name, phoneNumber |-> phoneNumber, email |-> email,
     status |-> status]

\* useUsers().allUsers
allUsers ==
    <<PanelUser("u1", <<"A", "n", "a">>, <<"+", "3", "5", "9">>, <<>>, "active"),
      PanelUser("u2", <<"B", "o", "b">>, <<"+", "4", "2", "0">>, <<"b", "@", "x">>,
                "active"),
      PanelUser("u3", <<"A", "n", "n">>, <<"+", "4", "9">>, <<>>, "active"),
      PanelUser("u4", <<"B", "o">>, <<"+", "4", "8">>, <<>>, "inactive"),
      PanelUser("u5", <<"A", "l">>, <<"n", "u", "l", "l">>, <<>>, "active"),
      PanelUser("u6", <<>>, <<" ">>, <<>>, "active")>>

SearchTerms == {<<>>, <<" ">>, <<"a", "n">>, <<"B">>, <<"4">>, <<"z">>}

\* String.prototype.toLowerCase
LowerChar(c) == CASE c = "A" -> "a" [] c = "B" -> "b" [] OTHER -> c

ToLowerCase(s) == [i \in 1..Len(s) |-> LowerChar(s[i])]

\* phone && phone.trim() && phone !== "null" && phone !== "undefined"
HasPhone(phone) ==
    /\ phone # <<>>
    /\ Trim(phone) # <<>>
    /\ phone # <<"n", "u", "l", "l">>
    /\ phone # <<"u", "n", "d", "e", "f", "i", "n", "e", "d">>

\* users.filter(u => u.status === "active" && u.phoneNumber && ...)
activeUsersWithPhones ==
    SelectSeq(allUsers, LAMBDA u : u.status = "active" /\ HasPhone(u.phoneNumber))

\* The predicate of the search filter.
MatchesSearch(user, term) ==
    \/ Trim(term) = <<>>
    \/ Includes(ToLowerCase(user.name), ToLowerCase(term))
    \/ Includes(ToLowerCase(user.phoneNumber), ToLowerCase(term))
    \/ Includes(ToLowerCase(user.email), ToLowerCase(term))

\* activeUsersWithPhones.filter(...) for the search term
filteredUsersWithPhones(term) ==
    SelectSeq(activeUsersWithPhones, LAMBDA u : MatchesSearch(u, term))

Ids(us) == [i \in 1..Len(us) |-> us[i].id]

Contains(seq, x) == \E i \in 1..Len(seq) : seq[i] = x

\* getRecipientCount
getRecipientCount(p) ==
    IF p.recipientFilter = "selected"
    THEN Len(p.selectedUserIds)
    ELSE Len(filteredUsersWithPhones(p.userSearchTerm))

\* The recipients handleSend computes.
SendRecipients(p) ==
    LET listed == filteredUsersWithPhones(p.userSearchTerm)
        chosen == IF p.recipientFilter = "selected"
                  THEN SelectSeq(listed, LAMBDA u : Contains(p.selectedUserIds, u.id))
                  ELSE listed
        phones == [i \in 1..Len(chosen) |-> chosen[i].phoneNumber]
    IN SelectSeq(phones, HasPhone)

\* onChange of the radio buttons
SetRecipientFilter(value) ==
    /\ panel' = [panel EXCEPT !.recipientFilter = value]
    /\ UNCHANGED <<hookVars, pc, localVars, returned, dbVars, envVars, traceVars,
                   served, detected, resolvers>>

\* onChange of the search box, shown in the selected mode
SetUserSearchTerm(term) ==
    /\ panel.recipientFilter = "selected"
    /\ panel' = [panel EXCEPT !.userSearchTerm = term]
    /\ UNCHANGED <<hookVars, pc, localVars, returned, dbVars, envVars, traceVars,
                   served, detected, resolvers>>

\* handleUserSelection(user.id, e.target.checked) from the check box of a listed user
HandleUserSelection(userId) ==
    /\ panel.recipientFilter = "selected"
    /\ Contains(Ids(filteredUsersWithPhones(panel.userSearchTerm)), userId)
    /\ panel' =
          [panel EXCEPT !.selectedUserIds =
              IF Contains(@, userId)
              THEN SelectSeq(@, LAMBDA id : id # userId)
              ELSE Append(@, userId)]
    /\ UNCHANGED <<hookVars, pc, localVars, returned, dbVars, envVars, traceVars,
                   served, detected, resolvers>>

\* handleSelectAllUsers
HandleSelectAllUsers ==
    /\ panel.recipientFilter = "selected"
    /\ panel' =
          [panel EXCEPT !.selectedUserIds =
              IF Len(@) = Len(filteredUsersWithPhones(panel.userSearchTerm))
              THEN <<>>
              ELSE Ids(filteredUsersWithPhones(panel.userSearchTerm))]
    /\ UNCHANGED <<hookVars, pc, localVars, returned, dbVars, envVars, traceVars,
                   served, detected, resolvers>>

\* handleSend from the enabled send button, with a message that is not blank:
\* `shown` is the count on the button, `called` tells whether sendSMS was
\* called and `recipients` what it was passed.
HandleSend ==
    /\ ~sending
    /\ getRecipientCount(panel) # 0
    /\ panel' = [panel EXCEPT !.handled = TRUE,
                              !.shown = getRecipientCount(panel),
                              !.called = Len(SendRecipients(panel)) # 0,
                              !.recipients = SendRecipients(panel)]
    /\ UNCHANGED <<hookVars, pc, localVars, returned, dbVars, envVars, traceVars,
                   served, detected, resolvers>>

InitPanel ==
    /\ HookIdle
    /\ users = SeedUsers
    /\ campaign_recipients = SeedRecipients
    /\ served = NotServed
    /\ detected = NotDetected
    /\ panel = PanelIdle
    /\ resolvers = NoResolvers

NextPanel ==
    \/ \E value \in {"all", "selected"} : SetRecipientFilter(value)
    \/ \E term \in SearchTerms : SetUserSearchTerm(term)
    \/ \E userId \in {allUsers[i].id : i \in 1..Len(allUsers)} : HandleUserSelection(userId)
    \/ HandleSelectAllUsers
    \/ HandleSend

SpecPanel == InitPanel /\ [][NextPanel]_vars

NextTimed ==
    \/ Next
    \/ IntervalTick
    \/ TimerFire

SpecTimed == Init /\ [][NextTimed]_vars

(***************************************************************************)
(* Campaign sends whose recipient list names a phone more than once, in    *)
(* the same spelling or in two spellings that normalize to the same phone, *)
(* within a batch and across batches.                                      *)
(***************************************************************************)
BookRepeats == <<"+420777", "+420777", "0888", "+359888">>
BookSpread == <<"+420777", "0888", "+420777", "+359888">>

RepeatingLists ==
    {Prefix(b, n) : b \in {BookRepeats, BookSpread}, n \in 1..(MaxWork - 1)}

RepeatingRequests ==
    [recipients : RepeatingLists, message : {MsgPlain, MsgLink1},
     campaignId : Campaigns, test : BOOLEAN]

NextRepeats ==
    \/ \E req \in RepeatingRequests : SendSMS(req)
    \/ ResolveRecipient
    \/ SendBatch
    \/ LogCampaign

SpecRepeats == Init /\ [][NextRepeats]_vars

(***************************************************************************)
(* The edge function called directly: one call, by either handler, on      *)
(* tables that may already hold a row of the campaign.                     *)
(***************************************************************************)
AdapterSeeds ==
    {SeedRecipients,
     Append(SeedRecipients, [campaign_id |-> "c1", user_id |-> 1, status |-> "pending",
                             unique_token |-> "TK9"])}

InitAdapter ==
    /\ HookIdle
    /\ users = SeedUsers
    /\ campaign_recipients \in AdapterSeeds
    /\ served = NotServed
    /\ detected = NotDetected
    /\ panel = PanelIdle
    /\ resolvers = NoResolvers

NextAdapter ==
    \/ Serve
    \/ DenoServeCall

SpecAdapter == InitAdapter /\ [][NextAdapter]_vars

(***************************************************************************)
(* detectCountryFromPhone of the Deno.serve handler, a pure function of    *)
(* the phone string.  A phone is the sequence of its characters.           *)
(***************************************************************************)
MaxDigits == 4

Digits == {"0", "1", "2", "3", "4", "5", "6", "7", "8", "9"}

\* The entry 'prefix': 'country' of the table.
Entry(prefix, country) == [prefix |-> <<"+">> \o prefix, country |-> country]

\* Mutant: a one-digit entry '+4' in front of the table.
prefixes_ShortFirst ==
    <<Entry(<<"4">>, "EU"),
      Entry(<<"3", "5", "9">>, "BG"), Entry(<<"3", "8", "0">>, "UA"),
      Entry(<<"4", "8">>, "PL"), Entry(<<"4", "0">>, "RO"),
      Entry(<<"3", "6">>, "HU"), Entry(<<"4", "2", "0">>, "CZ"),
      Entry(<<"4", "2", "1">>, "SK"), Entry(<<"3", "8", "5">>, "HR"),
      Entry(<<"3", "8", "6">>, "SI"), Entry(<<"3", "8", "1">>, "RS"),
      Entry(<<"4", "9">>, "DE"), Entry(<<"3", "3">>, "FR"),
      Entry(<<"3", "9">>, "IT"), Entry(<<"3", "4">>, "ES"),
      Entry(<<"3", "1">>, "NL"), Entry(<<"3", "2">>, "BE"),
      Entry(<<"4", "3">>, "AT"), Entry(<<"4", "1">>, "CH"),
      Entry(<<"4", "4">>, "GB"), Entry(<<"1">>, "US")>>

\* const prefixes = { '+359': 'BG', ... , '+1': 'US' }, in the order
\* Object.entries yields the keys: the order they are written in.
prefixes ==
    <<Entry(<<"3", "5", "9">>, "BG"), Entry(<<"3", "8", "0">>, "UA"),
      Entry(<<"4", "8">>, "PL"), Entry(<<"4", "0">>, "RO"),
      Entry(<<"3", "6">>, "HU"), Entry(<<"4", "2", "0">>, "CZ"),
      Entry(<<"4", "2", "1">>, "SK"), Entry(<<"3", "8", "5">>, "HR"),
      Entry(<<"3", "8", "6">>, "SI"), Entry(<<"3", "8", "1">>, "RS"),
      Entry(<<"4", "9">>, "DE"), Entry(<<"3", "3">>, "FR"),
      Entry(<<"3", "9">>, "IT"), Entry(<<"3", "4">>, "ES"),
      Entry(<<"3", "1">>, "NL"), Entry(<<"3", "2">>, "BE"),
      Entry(<<"4", "3">>, "AT"), Entry(<<"4", "1">>, "CH"),
      Entry(<<"4", "4">>, "GB"), Entry(<<"1">>, "US")>>

\* phone.startsWith(prefix)
startsWith(phone, prefix) ==
    /\ Len(prefix) <= Len(phone)
    /\ SubSeq(phone, 1, Len(prefix)) = prefix

\* for (const [prefix, country] of Object.entries(prefixes)) from entry i on.
RECURSIVE DetectFrom(_, _)
DetectFrom(phone, i) ==
    IF i > Len(prefixes) THEN "Unknown"
    ELSE IF startsWith(phone, prefixes[i].prefix) THEN prefixes[i].country
    ELSE DetectFrom(phone, i + 1)

detectCountryFromPhone(phone) == DetectFrom(phone, 1)

\* The numbers written out in the description of the function.
PhoneCZ == <<"+", "4", "2", "0", "7", "7", "7", "1", "2", "3", "4", "5", "6">>

PhoneUS == <<"+", "1", "2", "0", "2", "5", "5", "5", "0", "1", "0", "0">>

PhoneNoMatch == <<"+", "9", "9", "9", "0", "0", "0">>

\* The phone strings the function is applied to: every "+" followed by at most
\* MaxDigits digits, digit strings without the "+", and the numbers above.
DigitStrings(n) == UNION {[1..k -> Digits] : k \in 0..n}

Phones ==
    {<<"+">> \o d : d \in DigitStrings(MaxDigits)}
      \cup (DigitStrings(2) \ {<<>>})
      \cup {PhoneCZ, PhoneUS, PhoneNoMatch}

\* One application of detectCountryFromPhone.
Detect ==
    /\ detected = NotDetected
    /\ \E phone \in Phones :
          detected' = [phone |-> phone, country |-> detectCountryFromPhone(phone)]
    /\ UNCHANGED <<hookVars, pc, localVars, returned, dbVars, envVars, traceVars,
                   served, resolvers, panel>>

InitCountry ==
    /\ HookIdle
    /\ users = SeedUsers
    /\ campaign_recipients = SeedRecipients
    /\ served = NotServed
    /\ detected = NotDetected
    /\ panel = PanelIdle
    /\ resolvers = NoResolvers

NextCountry == Detect

SpecCountry == InitCountry /\ [][NextCountry]_vars

(***************************************************************************)
(* Two invocations of sendSMS, in two sessions, each resolving one         *)
(* recipient of a campaign message with a link placeholder against the     *)
(* same tables.  Each `await supabase...` is one step: the statement takes *)
(* effect in the table and the code runs on to the next await.  The tables *)
(* enforce uniqueness of users.phone_number and of                         *)
(* campaign_recipients (campaign_id, user_id): an insert of a second such  *)
(* row is answered with an error.                                          *)
(***************************************************************************)
Sessions == 1..2

RacePhones == {"+359888", "+420777"}

RaceCampaign == "c1"

\* A resolution at the top of the try block of the recipient loop.
Resolving(phone) ==
    [phone |-> normalizePhoneNumber(phone), at |-> "selectUser", userId |-> 0,
     uniqueToken |-> "", threw |-> FALSE, link |-> ""]

\* catch (error): the error is recorded, the phone pushed with an empty link.
Caught(r) == [r EXCEPT !.at = "pushed", !.threw = TRUE, !.link = ""]

\* batchRecipients.push(...); batchLinks.push(hasLinkPlaceholder && uniqueToken ? ... : '')
Pushed(r) ==
    [r EXCEPT !.at = "pushed",
              !.link = IF r.uniqueToken # "" THEN Link(r.uniqueToken) ELSE ""]

\* from('users').select('id').eq('phone_number', normalizedPhone).single()
SelectUser(s) ==
    /\ s \in DOMAIN resolvers
    /\ resolvers[s].at = "selectUser"
    /\ LET found == UserIds(users, resolvers[s].phone) IN
       resolvers' =
          [resolvers EXCEPT ![s] =
              IF Single(found)
              THEN [@ EXCEPT !.userId = CHOOSE i \in found : TRUE,
                             !.at = "selectRecipient"]
              ELSE [@ EXCEPT !.at = "insertUser"]]
    /\ UNCHANGED <<hookVars, pc, localVars, returned, dbVars, envVars, traceVars,
                   served, detected, panel>>

\* from('users').insert([{ phone_number, country, status: 'active' }]).select('id').single()
\* and `if (createUserError) throw createUserError`.
InsertUser(s) ==
    /\ s \in DOMAIN resolvers
    /\ resolvers[s].at = "insertUser"
    /\ IF UserIds(users, resolvers[s].phone) # {}
       THEN /\ resolvers' = [resolvers EXCEPT ![s] = Caught(@)]
            /\ users' = users
       ELSE /\ users' = Append(users, [phone_number |-> resolvers[s].phone,
                                       status |-> "active"])
            /\ resolvers' = [resolvers EXCEPT ![s] =
                                [@ EXCEPT !.userId = Len(users) + 1,
                                          !.at = "selectRecipient"]]
    /\ UNCHANGED <<hookVars, pc, localVars, returned, campaign_recipients,
                   bulk_messages, envVars, traceVars, served, detected, panel>>

\* from('campaign_recipients').select('unique_token').eq(...).eq(...).single();
\* without a row the token is drawn before the insert is awaited.
SelectRecipient(s) ==
    /\ s \in DOMAIN resolvers
    /\ resolvers[s].at = "selectRecipient"
    /\ LET found == RecipientIds(campaign_recipients, RaceCampaign, resolvers[s].userId) IN
       IF Single(found)
       THEN /\ resolvers' =
                 [resolvers EXCEPT ![s] =
                     [@ EXCEPT !.uniqueToken =
                                   campaign_recipients[CHOOSE j \in found : TRUE].unique_token,
                               !.at = "updateRecipient"]]
            /\ rand' = rand
       ELSE /\ resolvers' =
                 [resolvers EXCEPT ![s] =
                     [@ EXCEPT !.uniqueToken = RandomToken(rand),
                               !.at = "insertRecipient"]]
            /\ rand' = rand + 1
    /\ UNCHANGED <<hookVars, pc, localVars, returned, dbVars, invocations, submitted,
                   faults, traceVars, served, detected, panel>>

\* from('campaign_recipients').insert([{ campaign_id, user_id, status: 'sent', unique_token }])
\* and `if (createRecipientError) throw createRecipientError`.
InsertRecipient(s) ==
    /\ s \in DOMAIN resolvers
    /\ resolvers[s].at = "insertRecipient"
    /\ IF RecipientIds(campaign_recipients, RaceCampaign, resolvers[s].userId) # {}
       THEN /\ resolvers' = [resolvers EXCEPT ![s] = Caught(@)]
            /\ campaign_recipients' = campaign_recipients
       ELSE /\ campaign_recipients' =
                 Append(campaign_recipients,
                        [campaign_id |-> RaceCampaign, user_id |-> resolvers[s].userId,
                         status |-> "sent", unique_token |-> resolvers[s].uniqueToken])
            /\ resolvers' = [resolvers EXCEPT ![s] = Pushed(@)]
    /\ UNCHANGED <<hookVars, pc, localVars, returned, users, bulk_messages, envVars,
                   traceVars, served, detected, panel>>

\* from('campaign_recipients').update({ status: 'sent' }).eq(...).eq(...)
UpdateRecipient(s) ==
    /\ s \in DOMAIN resolvers
    /\ resolvers[s].at = "updateRecipient"
    /\ campaign_recipients' =
          [j \in 1..Len(campaign_recipients) |->
              IF j \in RecipientIds(campaign_recipients, RaceCampaign, resolvers[s].userId)
              THEN [campaign_recipients[j] EXCEPT !.status = "sent"]
              ELSE campaign_recipients[j]]
    /\ resolvers' = [resolvers EXCEPT ![s] = Pushed(@)]
    /\ UNCHANGED <<hookVars, pc, localVars, returned, users, bulk_messages, envVars,
                   traceVars, served, detected, panel>>

\* The rows of the campaign before the two invocations: none, or one of the
\* seeded user left pending by an earlier send.
RaceSeeds ==
    {SeedRecipients,
     Append(SeedRecipients, [campaign_id |-> RaceCampaign, user_id |-> 1,
                             status |-> "pending", unique_token |-> "TK9"])}

InitRace ==
    /\ HookIdle
    /\ users = SeedUsers
    /\ campaign_recipients \in RaceSeeds
    /\ served = NotServed
    /\ detected = NotDetected
    /\ panel = PanelIdle
    /\ resolvers \in {[s \in Sessions |-> Resolving(phones[s])] :
                          phones \in [Sessions -> RacePhones]}

NextRace ==
    \/ \E s \in Sessions : SelectUser(s)
    \/ \E s \in Sessions : InsertUser(s)
    \/ \E s \in Sessions : SelectRecipient(s)
    \/ \E s \in Sessions : InsertRecipient(s)
    \/ \E s \in Sessions : UpdateRecipient(s)

SpecRace == InitRace /\ [][NextRace]_vars

(***************************************************************************)
(* Vocabulary of the properties.                                           *)
(***************************************************************************)
Done == pc = "returned"

InvalidEntries == {"", " ", "null", "undefined"}

IsKept(phone) == phone \notin InvalidEntries

KeptRecipients == SelectSeq(request.recipients, IsKept)

IsBlank(m) == \A i \in 1..Len(m) : m[i] = " "

\* m contains {{ link }} with any amount of whitespace inside the braces.
ContainsPlaceholder(m) ==
    \E i, j, k \in 1..Len(m) :
        /\ i < j /\ j < k
        /\ m[i] = "{{" /\ m[j] = "link" /\ m[k] = "}}"
        /\ \A x \in (i + 1)..(k - 1) : x # j => m[x] = " "

\* t is m without its leading and trailing blanks.
IsTrimOf(t, m) ==
    /\ \E i \in 0..Len(m) :
          /\ i + Len(t) <= Len(m)
          /\ SubSeq(m, i + 1, i + Len(t)) = t
          /\ \A x \in 1..Len(m) : (x <= i \/ x > i + Len(t)) => m[x] = " "
    /\ Len(t) > 0 => (t[1] # " " /\ t[Len(t)] # " ")

CeilDiv(n, d) == (n + d - 1) \div d

Personalized == Len(validRecipients) > 0 /\ ~TakesPlainPath(request)

CallFailed(c) == c.kind # "data" \/ ~c.data.success

RECURSIVE SumSent(_)
SumSent(cs) ==
    IF Len(cs) = 0 THEN 0
    ELSE (IF CallFailed(cs[1]) \/ cs[1].data.sentCount = Undef THEN 0
          ELSE cs[1].data.sentCount) + SumSent(Tail(cs))

RECURSIVE AllRecipients(_)
AllRecipients(cs) ==
    IF Len(cs) = 0 THEN <<>> ELSE cs[1].body.recipients \o AllRecipients(Tail(cs))

RECURSIVE AllLinks(_)
AllLinks(cs) ==
    IF Len(cs) = 0 THEN <<>> ELSE Split(cs[1].body.param1) \o AllLinks(Tail(cs))

BatchErrors(k) ==
    {i \in 1..Len(returned.errors) :
        returned.errors[i].scope = "batch" /\ returned.errors[i].batch = k}

RecipientErrors ==
    {i \in 1..Len(returned.errors) : returned.errors[i].scope = "recipient"}

RowsFor(campaignId, phone) ==
    {j \in 1..Len(campaign_recipients) :
        /\ campaign_recipients[j].campaign_id = campaignId
        /\ users[campaign_recipients[j].user_id].phone_number = phone}

(***************************************************************************)
(* C1 as stated: a send with a non-empty recipient list, no campaign id    *)
(* and no link placeholder issues exactly one gateway call, carrying the   *)
(* recipient list and the message unmodified.                              *)
(***************************************************************************)
C1_Unmodified ==
    (/\ Done
     /\ Len(request.recipients) > 0
     /\ request.campaignId = NoCampaign
     /\ ~ContainsPlaceholder(request.message))
    => /\ Len(calls) = 1
       /\ calls[1].body.recipients = request.recipients
       /\ calls[1].body.message = request.message

(***************************************************************************)
(* C1, amended: such a send issues exactly one gateway call when at least  *)
(* one recipient entry is valid and none otherwise; the call carries the   *)
(* recipient list without its empty, blank, "null" and "undefined" entries *)
(* (order kept), the message trimmed, and no personalization parameter.    *)
(***************************************************************************)
C1_PlainSingleCall ==
    (/\ Done
     /\ Len(request.recipients) > 0
     /\ request.campaignId = NoCampaign
     /\ ~ContainsPlaceholder(request.message))
    => IF KeptRecipients = <<>>
       THEN calls = <<>>
       ELSE /\ Len(calls) = 1
            /\ calls[1].body.recipients = KeptRecipients
            /\ IsTrimOf(calls[1].body.message, request.message)
            /\ ~calls[1].body.hasParam1

C1_Witness ==
    /\ Done
    /\ request.campaignId = NoCampaign
    /\ ~ContainsPlaceholder(request.message)
    /\ Len(calls) = 1
    /\ Len(calls[1].body.recipients) < Len(request.recipients)
    /\ calls[1].body.message # request.message

(***************************************************************************)
(* C2: a send whose message contains a link placeholder and that has N     *)
(* (valid) recipients issues ceil(N / batchSize) gateway calls, each with  *)
(* a param1 of as many '|'-separated segments as the call has recipients.  *)
(***************************************************************************)
C2_BatchesAndSegments ==
    (Done /\ ContainsPlaceholder(request.message))
    => /\ Len(calls) = CeilDiv(Len(KeptRecipients), batchSize)
       /\ \A k \in 1..Len(calls) :
            /\ calls[k].body.hasParam1
            /\ Len(Split(calls[k].body.param1)) = Len(calls[k].body.recipients)

(***************************************************************************)
(* C3: every time the resolver returns a token for a (campaign, phone)     *)
(* pair it is the same token, there is exactly one campaign_recipients row *)
(* for the pair, and that row holds this token.                            *)
(***************************************************************************)
C3_TokenStable ==
    \A y \in yielded :
        /\ \A z \in yielded :
              (z.campaign_id = y.campaign_id /\ z.phone = y.phone) => z.token = y.token
        /\ Cardinality(RowsFor(y.campaign_id, y.phone)) = 1
        /\ \A j \in RowsFor(y.campaign_id, y.phone) :
              campaign_recipients[j].unique_token = y.token

C3_Witness ==
    \E y, z \in yielded :
        /\ y.campaign_id = z.campaign_id
        /\ y.phone = z.phone
        /\ y.invocation # z.invocation
        /\ y.token = z.token

(***************************************************************************)
(* C4: an invocation that reached the gateway returns success = false when *)
(* the aggregated sentCount is 0 and success = true when it is positive.   *)
(***************************************************************************)
C4_SuccessIffSent ==
    (Done /\ Len(calls) > 0)
    => /\ SumSent(calls) = 0 => ~returned.success
       /\ SumSent(calls) > 0 => returned.success

(***************************************************************************)
(* C5: an invocation with test = true never writes a bulk_messages row.    *)
(***************************************************************************)
C5_TestNeverLogs == request.test => logRows = 0

(***************************************************************************)
(* C6: a non-test invocation that returns success has written exactly one  *)
(* bulk_messages row, on the plain path as on the personalized path.       *)
(***************************************************************************)
C6_SuccessLogsOnce ==
    (Done /\ ~request.test /\ returned.success) => logRows = 1

(***************************************************************************)
(* C7: whatever the whitespace inside the braces of the placeholder, each  *)
(* gateway call carries the message with the placeholder replaced by       *)
(* [%1%] and a link parameter with one segment per recipient.              *)
(***************************************************************************)
C7_WhitespaceTolerant ==
    (Done /\ ContainsPlaceholder(request.message))
    => \A k \in 1..Len(calls) :
          /\ calls[k].body.message = Trim(ReplaceLink(request.message))
          /\ calls[k].body.hasParam1
          /\ Len(Split(calls[k].body.param1)) = Len(calls[k].body.recipients)

(***************************************************************************)
(* C8: in a personalized send every batch is sent to the gateway whatever  *)
(* happened to the batches before it, a failed batch k leaves exactly one  *)
(* "Batch k" error and a successful one none, and sentCount is the sum     *)
(* over the successful batches.                                            *)
(***************************************************************************)
C8_BatchFailureIsolated ==
    (Done /\ Personalized)
    => /\ Len(calls) = CeilDiv(Len(validRecipients), batchSize)
       /\ \A k \in 1..Len(calls) :
            /\ Cardinality(BatchErrors(k)) = (IF CallFailed(calls[k]) THEN 1 ELSE 0)
            /\ Len(calls[k].body.recipients) =
                  Min(batchSize, Len(validRecipients) - (k - 1) * batchSize)
       /\ returned.sentCount = SumSent(calls)

C8_Witness ==
    /\ Done
    /\ Personalized
    /\ Len(calls) >= 2
    /\ CallFailed(calls[1])
    /\ ~CallFailed(calls[2])
    /\ Cardinality(BatchErrors(1)) = 1
    /\ returned.sentCount > 0

(***************************************************************************)
(* C9: in a personalized send each failed user or campaign-recipient       *)
(* insert leaves one per-recipient error; every valid recipient, failed or *)
(* not, is in the gateway calls in order; when links are sent, the failed  *)
(* recipients and only they have an empty link.                            *)
(***************************************************************************)
C9_ResolutionFailureDegrades ==
    (Done /\ Personalized)
    => /\ Cardinality(RecipientErrors) = insertFailures
       /\ AllRecipients(calls) =
             [i \in 1..Len(validRecipients) |-> normalizePhoneNumber(validRecipients[i])]
       /\ hasLinkPlaceholder =>
             /\ Len(AllLinks(calls)) = Len(AllRecipients(calls))
             /\ Cardinality({i \in 1..Len(AllLinks(calls)) : AllLinks(calls)[i] = ""})
                   = insertFailures
             /\ \A e \in RecipientErrors :
                   \E i \in 1..Len(AllLinks(calls)) :
                       /\ AllRecipients(calls)[i] = returned.errors[e].phone
                       /\ AllLinks(calls)[i] = ""

C9_Witness ==
    /\ Done
    /\ Personalized
    /\ hasLinkPlaceholder
    /\ insertFailures = 1
    /\ Cardinality(RecipientErrors) = 1
    /\ \E k \in 1..Len(calls) :
          /\ Len(calls[k].body.recipients) = 2
          /\ \E i, j \in 1..2 :
                /\ Split(calls[k].body.param1)[i] = ""
                /\ Split(calls[k].body.param1)[j] # ""

RECURSIVE ProviderInvalid(_)
ProviderInvalid(cs) ==
    IF Len(cs) = 0 THEN <<>> ELSE cs[1].reported \o ProviderInvalid(Tail(cs))

(***************************************************************************)
(* C10: an invocation whose recipient list is empty or has no valid entry, *)
(* or whose message is empty after trimming, inserts or updates no users   *)
(* or campaign_recipients row and makes no provider request.               *)
(***************************************************************************)
C10_RejectedBeforeSideEffects ==
    (/\ invocations > 0
     /\ \/ KeptRecipients = <<>>
        \/ IsBlank(request.message))
    => dbWrites = 0 /\ providerRequests = 0

(***************************************************************************)
(* C11: when an invocation has sent something (sentCount > 0) and the      *)
(* provider has reported numbers invalid, the result is a success whose    *)
(* invalidNumbers are the numbers the provider reported, over all batches. *)
(***************************************************************************)
C11_PartialSuccessKeepsInvalid ==
    (Done /\ SumSent(calls) > 0 /\ ProviderInvalid(calls) # <<>>)
    => /\ returned.success
       /\ returned.invalidNumbers = ProviderInvalid(calls)

(***************************************************************************)
(* Vocabulary of the properties of the edge function.                      *)
(***************************************************************************)
WasServed == served.handler # "none"

ProviderAnsweredError ==
    /\ WasServed
    /\ served.http.fetched
    /\ served.reply.kind = "json"
    /\ served.reply.error # 0

FixedMessage(code) ==
    CASE code = 11 -> "Message too long or contains invalid characters"
      [] code = 13 -> "No valid phone numbers provided"
      [] code = 14 -> "Invalid sender name"
      [] code = 101 -> "Invalid authorization"
      [] code = 103 -> "Insufficient credits"
      [] code = 105 -> "IP address not allowed"
      [] code = 112 -> "Sending to this country is restricted"
      [] code = 203 -> "Too many requests, please try again later"

(***************************************************************************)
(* C12: when the provider answers with an error code, the edge function    *)
(* answers 400 with success = false and errorCode the provider's code; the *)
(* error text is the fixed message of a known code, and for any other code *)
(* carries the provider's message, or the code when there is no message.   *)
(***************************************************************************)
C12_ErrorCodeMapping ==
    ProviderAnsweredError
    => /\ served.http.status = 400
       /\ ~served.http.json.success
       /\ served.http.json.errorCode = served.reply.error
       /\ served.http.json.error.text =
             IF served.reply.error \in {11, 13, 14, 101, 103, 105, 112, 203}
             THEN FixedMessage(served.reply.error)
             ELSE "SMS API Error: " \o (IF served.reply.message # ""
                                        THEN served.reply.message
                                        ELSE ToString(served.reply.error))

C12_Witness ==
    /\ ProviderAnsweredError
    /\ served.reply.error = 999
    /\ served.reply.message # ""
    /\ served.http.json.errorCode = 999

(***************************************************************************)
(* C13: a call of the edge function with a non-empty recipient list, a     *)
(* non-blank message and its settings present, whose database statements   *)
(* succeed, makes one provider request; a call with an empty recipient     *)
(* list (400), a blank message (400) or no provider token (500) makes no   *)
(* provider request and writes nothing.                                    *)
(***************************************************************************)
C13_OneRequestOrNone ==
    WasServed
    => IF Len(served.body.recipients) = 0 \/ IsBlank(served.body.message)
       THEN /\ served.http.status = 400
            /\ ~served.http.fetched
            /\ served.writes = 0
       ELSE IF ~served.token
       THEN /\ served.http.status = 500
            /\ ~served.http.fetched
            /\ served.writes = 0
       ELSE served.http.status \in {200, 400} => served.http.fetched

(***************************************************************************)
(* Vocabulary of the progress properties.                                  *)
(***************************************************************************)
\* r is num / den rounded to the nearest integer, a half rounded up.
IsRounded(r, num, den) ==
    /\ 2 * den * r <= 2 * num + den
    /\ 2 * num + den < 2 * den * (r + 1)

BatchCount == Len(Batches(validRecipients))

LoopFinished == Personalized /\ pc \in {"log", "returned"}

(***************************************************************************)
(* C14 as stated: the progress reported after the k-th of T batches is     *)
(* round(100 * k / T) capped at 90.                                        *)
(***************************************************************************)
C14_ProgressOutOf100 ==
    Personalized
    => \A k \in 1..Len(progressLog) :
          k <= BatchCount
          => \E r \in 0..100 : /\ IsRounded(r, 100 * k, BatchCount)
                                /\ progressLog[k] = Min(r, 90)

(***************************************************************************)
(* C14, amended: the progress reported after the k-th of T batches is      *)
(* 90 * k / T rounded to the nearest integer, and once the last batch is   *)
(* done progress is set to 100.                                            *)
(***************************************************************************)
C14_ProgressScaledTo90 ==
    /\ Personalized
       => /\ \A k \in 1..Len(progressLog) :
                k <= BatchCount => IsRounded(progressLog[k], 90 * k, BatchCount)
          /\ Len(progressLog) >= BatchCount
                => /\ Len(progressLog) = BatchCount + 1
                   /\ progressLog[BatchCount + 1] = 100
          /\ LoopFinished => Len(progressLog) = BatchCount + 1 /\ progress = 100
          /\ pc = "resolve" => Len(progressLog) = batchIndex - 1
    /\ \A n \in 1..MaxBatches : \A k \in 1..n :
          IsRounded(ProgressPercent(k, n), 90 * k, n)

C14_Witness ==
    /\ LoopFinished
    /\ BatchCount = 2
    /\ progressLog = <<45, 90, 100>>

RECURSIVE AllMessageIds(_)
AllMessageIds(cs) ==
    IF Len(cs) = 0 THEN <<>>
    ELSE (IF CallFailed(cs[1]) THEN <<>> ELSE cs[1].data.messageIds)
           \o AllMessageIds(Tail(cs))

(***************************************************************************)
(* C15: when the bulk_messages insert of a send that sent something fails, *)
(* by an error result or by a rejection, sendSMS returns success = true    *)
(* with the sentCount and message ids aggregated over the batches.         *)
(***************************************************************************)
C15_LogFailureSwallowed ==
    (Done /\ logOutcome \in {"error", "thrown"})
    => /\ returned.success
       /\ returned.sentCount = SumSent(calls)
       /\ returned.sentCount > 0
       /\ returned.messageIds = AllMessageIds(calls)
       /\ returned.error = NoError

C15_Witness ==
    /\ Done
    /\ logOutcome = "thrown"
    /\ logRows = 0
    /\ returned.success
    /\ Len(calls) = 2

\* The recipients resolved so far in the current invocation, in order.
ResolvedSoFar == AllRecipients(calls) \o batchRecipients

FailedPhones == {results.errors[i].phone : i \in
                    {j \in 1..Len(results.errors) : results.errors[j].scope = "recipient"}}

(***************************************************************************)
(* C16: in a test invocation with a campaign id every gateway call carries *)
(* test = true and every provider request test=1, and the resolver has     *)
(* done its bookkeeping as in a real send: every recipient resolved        *)
(* without a failed insert has a users row and a campaign_recipients row   *)
(* of the campaign with status sent.                                       *)
(***************************************************************************)
C16_TestOnlyFlagsGateway ==
    (request.test /\ request.campaignId # NoCampaign /\ pc \in {"resolve", "log", "returned"})
    => /\ \A k \in 1..Len(calls) :
             /\ calls[k].body.test
             /\ calls[k].form # NoForm => calls[k].form.test
       /\ \A i \in 1..Len(ResolvedSoFar) :
             ResolvedSoFar[i] \notin FailedPhones
             => /\ UserIds(users, ResolvedSoFar[i]) # {}
                /\ RowsFor(request.campaignId, ResolvedSoFar[i]) # {}
                /\ \A j \in RowsFor(request.campaignId, ResolvedSoFar[i]) :
                      campaign_recipients[j].status = "sent"
       /\ dbWrites >= Len(ResolvedSoFar) - insertFailures

C16_Witness ==
    /\ Done
    /\ request.test
    /\ request.campaignId # NoCampaign
    /\ Len(calls) = 1
    /\ calls[1].form # NoForm
    /\ calls[1].form.test
    /\ calls[1].body.recipients = <<"+420777">>
    /\ dbWrites = 2
    /\ RowsFor(request.campaignId, "+420777") # {}

\* The recipients of call c that the provider counted as sent.
SentTo(c) ==
    IF CallFailed(c) \/ c.data.sentCount = Undef THEN <<>>
    ELSE SubSeq(c.body.recipients, 1, c.data.sentCount)

(***************************************************************************)
(* C17: once sendSMS has sent to a recipient, a users row with the         *)
(* recipient's normalized phone number and status active exists, whichever *)
(* path the send took.                                                     *)
(***************************************************************************)
C17_UserCreatedOnSend ==
    Done
    => \A k \in 1..Len(calls) : \A i \in 1..Len(SentTo(calls[k])) :
          \E u \in 1..Len(users) :
              /\ users[u].phone_number = normalizePhoneNumber(SentTo(calls[k])[i])
              /\ users[u].status = "active"

Matching(phone) == {i \in 1..Len(prefixes) : startsWith(phone, prefixes[i].prefix)}

\* The matching entry with the longest prefix.
Longest(phone) ==
    CHOOSE i \in Matching(phone) :
        \A j \in Matching(phone) : Len(prefixes[j].prefix) <= Len(prefixes[i].prefix)

(***************************************************************************)
(* C19: the detected country is that of the longest table prefix the phone *)
(* starts with, and Unknown when it starts with none; +420777123456 gives  *)
(* CZ, +12025550100 gives US and +999000 gives Unknown.                    *)
(***************************************************************************)
C19_LongestPrefixWins ==
    /\ detected # NotDetected
          => IF Matching(detected.phone) = {}
             THEN detected.country = "Unknown"
             ELSE /\ detected.country = prefixes[Longest(detected.phone)].country
                  /\ \A j \in Matching(detected.phone) :
                        j # Longest(detected.phone)
                          => Len(prefixes[j].prefix)
                               < Len(prefixes[Longest(detected.phone)].prefix)
    /\ detected.phone = PhoneCZ => detected.country = "CZ"
    /\ detected.phone = PhoneUS => detected.country = "US"
    /\ detected.phone = PhoneNoMatch => detected.country = "Unknown"

C19_Witness ==
    /\ detected.phone = PhoneCZ
    /\ detected.country = "CZ"
    /\ Matching(PhoneCZ) # {}

\* Both resolutions have pushed their recipient.
BothPushed == \A s \in DOMAIN resolvers : resolvers[s].at = "pushed"

(***************************************************************************)
(* C20: when two invocations resolve the same phone number, unseen until   *)
(* then, for the same campaign, and the tables enforce uniqueness, neither *)
(* records a per-recipient error and both send the same token: the one     *)
(* whose insert is refused reads the existing row and goes on.             *)
(***************************************************************************)
C20_LoserRereads ==
    (/\ resolvers # NoResolvers
     /\ BothPushed
     /\ resolvers[1].phone = resolvers[2].phone
     /\ UserIds(SeedUsers, resolvers[1].phone) = {})
    => /\ ~resolvers[1].threw
       /\ ~resolvers[2].threw
       /\ resolvers[1].link = resolvers[2].link
       /\ resolvers[1].link # ""

\* The per-batch errors of the returned result, in the order recorded.
FirstBatchError ==
    returned.errors[CHOOSE i \in 1..Len(returned.errors) :
                       /\ returned.errors[i].scope = "batch"
                       /\ \A j \in 1..(i - 1) : returned.errors[j].scope # "batch"]

HasBatchError == \E i \in 1..Len(returned.errors) : returned.errors[i].scope = "batch"

(***************************************************************************)
(* C21: when a personalized send has sent nothing, the error of the        *)
(* returned result is the first per-batch error recorded, or the text      *)
(* 'No messages were sent successfully' when no batch error was recorded;  *)
(* it is never a per-recipient resolution error.                           *)
(***************************************************************************)
C21_FirstBatchErrorSurfaced ==
    (Done /\ Personalized /\ returned.sentCount = 0)
    => /\ returned.error.scope # "recipient"
       /\ returned.error = IF HasBatchError THEN FirstBatchError
                           ELSE Plain("No messages were sent successfully")

\* The normalized phones of batch k of the invocation.
NormalizedBatch(k) ==
    [i \in 1..Len(Batches(validRecipients)[k]) |->
        normalizePhoneNumber(Batches(validRecipients)[k][i])]

\* A step of the running invocation resolves the next recipient of the batch
\* and does nothing else.
ResolvesOne ==
    /\ calls' = calls
    /\ batchIndex' = batchIndex
    /\ Len(batchRecipients) < Len(CurrentBatch)
    /\ batchRecipients' =
          Append(batchRecipients,
                 normalizePhoneNumber(CurrentBatch[Len(batchRecipients) + 1]))
    /\ bulk_messages' = bulk_messages

\* A step of the running invocation makes the gateway call of the resolved
\* batch and touches no table.
CallsOnce ==
    /\ Len(calls') = Len(calls) + 1
    /\ SubSeq(calls', 1, Len(calls)) = calls
    /\ batchRecipients = NormalizedBatch(batchIndex)
    /\ calls'[Len(calls')].body.recipients = batchRecipients
    /\ batchRecipients' = <<>>
    /\ dbVars' = dbVars

\* A step of the running invocation is the log insert and nothing else.
LogsOnce ==
    /\ pc = "log"
    /\ calls' = calls
    /\ users' = users
    /\ campaign_recipients' = campaign_recipients

\* A step taken while the invocation is in its batch loop or at the log insert.
OneOperation == pc \in {"resolve", "log"} => (ResolvesOne \/ CallsOnce \/ LogsOnce)

(***************************************************************************)
(* C22: an invocation of the personalized path performs its database and   *)
(* gateway operations one after the other: each step resolves exactly the  *)
(* next recipient of the current batch, or makes the gateway call of a     *)
(* batch all of whose recipients are resolved, or writes the log row; and  *)
(* while batch k is being resolved exactly the calls of batches 1..k-1     *)
(* have been made and have returned.                                       *)
(***************************************************************************)
C22_OneOperationAtATime ==
    /\ [](pc = "resolve" => /\ Len(calls) = batchIndex - 1
                            /\ Len(batchRecipients) <= Len(CurrentBatch)
                            /\ \A k \in 1..Len(calls) :
                                  calls[k].body.recipients = NormalizedBatch(k))
    /\ [][OneOperation]_vars

C22_Witness ==
    /\ Done
    /\ Personalized
    /\ request.campaignId # NoCampaign
    /\ Len(validRecipients) = 3
    /\ Len(calls) = 2
    /\ dbWrites >= 3

\* A step of an invocation without campaign id leaves campaign_recipients alone.
RecipientsUntouched ==
    request'.campaignId = NoCampaign => campaign_recipients' = campaign_recipients

(***************************************************************************)
(* C23: an invocation without campaign id, plain or with a bare link,      *)
(* inserts and updates no campaign_recipients row; a bare-link send still  *)
(* draws a token for every recipient and sends it as the link.             *)
(***************************************************************************)
C23_NoCampaignNoRecipientRow ==
    /\ [][RecipientsUntouched]_vars
    /\ []((Done /\ request.campaignId = NoCampaign /\ Len(validRecipients) > 0)
            => /\ dbWrites = 0
               /\ Personalized =>
                    /\ Len(AllLinks(calls)) = Len(validRecipients)
                    /\ \A i \in 1..Len(AllLinks(calls)) : AllLinks(calls)[i] # ""
                    /\ \A i, j \in 1..Len(AllLinks(calls)) :
                          AllLinks(calls)[i] = AllLinks(calls)[j] => i = j)

C23_Witness ==
    /\ Done
    /\ request.campaignId = NoCampaign
    /\ Personalized
    /\ Len(validRecipients) = 3
    /\ Len(calls) = 2
    /\ Len(AllLinks(calls)) = 3
    /\ AllLinks(calls)[1] # AllLinks(calls)[3]
    /\ campaign_recipients = SeedRecipients

\* The positions of the gateway calls' recipient entries that carry phone p.
EntriesOf(p) == {i \in 1..Len(AllRecipients(calls)) : AllRecipients(calls)[i] = p}

\* A phone named more than once in the invocation's recipient list.
NamedTwice(p) == Cardinality(EntriesOf(p)) >= 2

\* No two users rows share a phone and no two campaign_recipients rows share
\* a campaign and a user.
NoDuplicateRows ==
    /\ \A i, j \in 1..Len(users) :
          users[i].phone_number = users[j].phone_number => i = j
    /\ \A i, j \in 1..Len(campaign_recipients) :
          (/\ campaign_recipients[i].campaign_id = campaign_recipients[j].campaign_id
           /\ campaign_recipients[i].user_id = campaign_recipients[j].user_id) => i = j

(***************************************************************************)
(* C24 as stated: in a campaign send whose recipient list names a phone    *)
(* several times, at most one users row and one campaign_recipients row    *)
(* exist for it afterwards and all its entries are sent the same link.     *)
(***************************************************************************)
C24_SameTokenForAllEntries ==
    /\ NoDuplicateRows
    /\ (Done /\ Personalized /\ request.campaignId # NoCampaign /\ hasLinkPlaceholder)
          => \A i, j \in 1..Len(AllRecipients(calls)) :
                AllRecipients(calls)[i] = AllRecipients(calls)[j]
                   => AllLinks(calls)[i] = AllLinks(calls)[j]

(***************************************************************************)
(* C24: in a campaign send whose recipient list names a phone several      *)
(* times, at most one users row and one campaign_recipients row exist for  *)
(* it afterwards, the tokens the resolver returned for it in this          *)
(* invocation are one and the same, and its entries are sent the same link *)
(* except those whose insert failed, which are sent an empty link.         *)
(***************************************************************************)
C24_NoDuplicateWithinInvocation ==
    /\ NoDuplicateRows
    /\ \A y, z \in yielded :
          (/\ y.invocation = z.invocation
           /\ y.campaign_id = z.campaign_id
           /\ y.phone = z.phone) => y.token = z.token
    /\ (Done /\ Personalized /\ request.campaignId # NoCampaign /\ hasLinkPlaceholder)
          => /\ \A i, j \in 1..Len(AllRecipients(calls)) :
                   (/\ AllRecipients(calls)[i] = AllRecipients(calls)[j]
                    /\ AllLinks(calls)[i] # ""
                    /\ AllLinks(calls)[j] # "")
                   => AllLinks(calls)[i] = AllLinks(calls)[j]
             /\ Cardinality({i \in 1..Len(AllLinks(calls)) : AllLinks(calls)[i] = ""})
                   = insertFailures

C24_Witness ==
    /\ Done
    /\ request.campaignId # NoCampaign
    /\ hasLinkPlaceholder
    /\ insertFailures = 0
    /\ NamedTwice("+420777")
    /\ NamedTwice("+359888")
    /\ Cardinality(UserIds(users, "+420777")) = 1
    /\ Cardinality(RowsFor(request.campaignId, "+420777")) = 1
    /\ \A i \in EntriesOf("+420777") : AllLinks(calls)[i] = Link("TK1")

\* campaignData.short_id: the short identifier the campaigns table holds.
CampaignShortId(campaignId) == "s1"

\* A link made of the campaign's short identifier and a token, in the form the
\* repository's campaign links have: <base>/c/<short_id>?token=<token>.
CampaignLink(campaignId, token) ==
    "https://app.example/c/" \o CampaignShortId(campaignId) \o "?token=" \o token

(***************************************************************************)
(* C25: in a campaign send with a link placeholder, every link sent is     *)
(* made of the campaign's short identifier and the recipient's token.      *)
(***************************************************************************)
C25_LinkCarriesShortId ==
    (Done /\ Personalized /\ request.campaignId # NoCampaign /\ hasLinkPlaceholder)
    => \A i \in 1..Len(AllLinks(calls)) :
          AllLinks(calls)[i] # ""
             => \E y \in yielded :
                   /\ y.campaign_id = request.campaignId
                   /\ y.phone = AllRecipients(calls)[i]
                   /\ AllLinks(calls)[i] = CampaignLink(request.campaignId, y.token)

\* An invocation has passed its setProgress(0) and has not returned yet.
InProgress == pc \in {"plain", "resolve", "log"}

\* A step taken while an invocation is in progress does not lower progress.
KeepsProgress == InProgress => progress' >= progress

(***************************************************************************)
(* C26: while an invocation of sendSMS is in progress the progress value   *)
(* never decreases, also when the invocation was started while the reset   *)
(* timer of the previous invocation of the hook was still pending.         *)
(***************************************************************************)
C26_ProgressNeverDecreases == [][KeepsProgress]_vars

\* The returned value is a result: a success, or a failure with an error text.
IsResult(r) == r.success \/ (r.error # NoError /\ r.error.text # "")

NormalizedValid ==
    [i \in 1..Len(FilterValid(request.recipients)) |->
        normalizePhoneNumber(FilterValid(request.recipients)[i])]

\* The number of recipient entries of the calls before call k.
Before(k) == Len(AllRecipients(SubSeq(calls, 1, k - 1)))

(***************************************************************************)
(* C28: in a personalized send the gateway calls partition the valid       *)
(* recipients: entry i of the valid recipients, whether its resolution     *)
(* failed or not, is entry i of the calls' recipient lists taken one after *)
(* the other, so it is in exactly one call and once in it; no call is      *)
(* empty or carries more than batchSize recipients, and only the last call *)
(* may carry fewer.                                                        *)
(***************************************************************************)
C28_BatchesPartitionRecipients ==
    (Done /\ Personalized)
    => /\ Len(AllRecipients(calls)) = Len(NormalizedValid)
       /\ \A k \in 1..Len(calls) :
             /\ Len(calls[k].body.recipients) >= 1
             /\ Len(calls[k].body.recipients) <= batchSize
             /\ k < Len(calls) => Len(calls[k].body.recipients) = batchSize
             /\ \A i \in 1..Len(calls[k].body.recipients) :
                   calls[k].body.recipients[i] = NormalizedValid[Before(k) + i]

C28_Witness ==
    /\ Done
    /\ Personalized
    /\ Len(NormalizedValid) = 3
    /\ Len(calls) = 2
    /\ insertFailures = 1
    /\ Len(calls[1].body.recipients) = 2
    /\ calls[2].body.recipients = <<"+359888">>

\* The provider marker is in the message of the request.
HasMarker(message) == \E i \in 1..Len(message) : message[i] = "[%1%]"

(***************************************************************************)
(* C29: whenever the message of a provider request made for the hook's     *)
(* personalized send contains the marker [%1%], the request carries a      *)
(* param1 field, also when every link of the batch is empty.               *)
(***************************************************************************)
C29_MarkerHasParam1 ==
    Personalized
    => \A k \in 1..Len(calls) :
          (calls[k].form # NoForm /\ HasMarker(calls[k].form.message))
             => calls[k].form.hasParam1

(***************************************************************************)
(* C30: the recipient count on the send button when handleSend runs equals *)
(* the number of recipients handleSend passes to sendSMS, whatever         *)
(* selections, filter changes and search-term changes came before.         *)
(***************************************************************************)
C30_CountMatchesRecipients ==
    panel.handled => /\ panel.called
                     /\ panel.shown = Len(panel.recipients)

====
